---- MODULE Spec2Model ----
(***************************************************************************)
(* Registry federation layer of ghostpanel: RegistryClient (bearer         *)
(* challenge authentication), RegistryManager (add / remove / federated    *)
(* search) and the agent's request handlers, which share one               *)
(* RegistryManager behind a tokio RwLock.                                  *)
(*                                                                         *)
(* A task is one caller: either a direct caller of the library (the        *)
(* start-up loop of main) or one axum request handler.  Every `.await` on  *)
(* a network call is a state of its own (the request is in flight), so a   *)
(* task's position is pc[t] and its in-flight request is req[t].           *)
(***************************************************************************)
EXTENDS Integers, Sequences, FiniteSets, TLC

(***************************************************************************)
(* Bounds of the model.                                                    *)
(***************************************************************************)
NumTasks == 2

Tasks == 1..NumTasks

\* The single owner of a RegistryManager / RegistryClient used directly
\* (`&mut self`: main's start-up loop), in the library-level specifications.
Caller == 1

(***************************************************************************)
(* Option<T> is a sequence of length at most one.                          *)
(***************************************************************************)
None == <<>>

Some(v) == <<v>>

IsSome(o) == o # <<>>

(***************************************************************************)
(* Text.  A header value is a sequence of symbols: the separators the      *)
(* parser looks at (comma, space, double quote) are single symbols, the    *)
(* keywords "Bearer ", "realm=", "service=" are single symbols, and every  *)
(* other symbol is a run of characters holding none of them.               *)
(***************************************************************************)
Q == "\""

RECURSIVE SplitOn(_, _)
\* str::split(sep): the parts between the separators, in order.
SplitOn(s, sep) ==
    IF \A i \in 1..Len(s) : s[i] # sep
    THEN <<s>>
    ELSE LET i == CHOOSE k \in 1..Len(s) :
                      s[k] = sep /\ \A j \in 1..(k - 1) : s[j] # sep
         IN  <<SubSeq(s, 1, i - 1)>> \o SplitOn(SubSeq(s, i + 1, Len(s)), sep)

RECURSIVE TrimStartMatches(_, _)
TrimStartMatches(s, c) ==
    IF s # <<>> /\ Head(s) = c THEN TrimStartMatches(Tail(s), c) ELSE s

RECURSIVE TrimEndMatches(_, _)
TrimEndMatches(s, c) ==
    IF s # <<>> /\ s[Len(s)] = c
    THEN TrimEndMatches(SubSeq(s, 1, Len(s) - 1), c)
    ELSE s

\* str::trim_matches(c): every leading and every trailing c removed.
TrimMatches(s, c) == TrimEndMatches(TrimStartMatches(s, c), c)

\* str::trim(): leading and trailing white space removed.
Trim(s) == TrimMatches(s, " ")

\* str::strip_prefix(p): Some(rest) when s starts with p, else None.
StripPrefix(s, p) == IF s # <<>> /\ Head(s) = p THEN Some(Tail(s)) ELSE None

\* str::replace(p, ""): every occurrence of p removed.
RemoveAll(s, p) == SelectSeq(s, LAMBDA x : x # p)

\* HeaderValue::to_str(): an error when the value holds a byte that is not
\* visible ASCII.
ToStr(h) == IF \E i \in 1..Len(h) : h[i] = "\\x80" THEN None ELSE Some(h)

RECURSIVE ParseParts(_, _)
\* The loop of get_auth_token over the comma-separated parts: a later
\* realm= / service= overrides an earlier one.
ParseParts(parts, acc) ==
    IF parts = <<>> THEN acc
    ELSE LET part == Trim(Head(parts))
             r    == StripPrefix(part, "realm=")
             s    == StripPrefix(part, "service=")
             acc2 == IF IsSome(r)
                     THEN [acc EXCEPT !.realm = Some(TrimMatches(r[1], Q))]
                     ELSE IF IsSome(s)
                     THEN [acc EXCEPT !.service = Some(TrimMatches(s[1], Q))]
                     ELSE acc
         IN  ParseParts(Tail(parts), acc2)

\* Mutant: the scheme word is left in front of the first part.
ParseChallengeKeepScheme(auth_header) ==
    ParseParts(SplitOn(auth_header, ","), [realm |-> None, service |-> None])

\* The parse at the head of get_auth_token: (realm, service), each optional.
ParseChallenge(auth_header) ==
    ParseParts(SplitOn(RemoveAll(auth_header, "Bearer "), ","),
               [realm |-> None, service |-> None])

(***************************************************************************)
(* HTTP.                                                                   *)
(***************************************************************************)
IsSuccess(status) == status >= 200 /\ status < 300

NoAuth == <<"none">>

BasicAuth(u, p) == <<"basic", u, p>>

BearerAuth(tok) == <<"bearer", tok>>

Request(kind, method, url, auth) ==
    [kind |-> kind, method |-> method, url |-> url, auth |-> auth]

\* GET {url}/v2/ with no credentials: the probe of authenticate.
ProbeRequest(config) == Request("probe", "GET", <<config.url, "/v2/">>, NoAuth)

\* GET {realm}?service={service}&scope=registry:catalog:* with Basic auth.
TokenRequest(realm, service, username, password) ==
    Request("token", "GET",
            realm \o <<"?service=">> \o service \o <<"&scope=registry:catalog:*">>,
            BasicAuth(username, password))

(***************************************************************************)
(* Inputs.                                                                 *)
(***************************************************************************)
\* The registries of GhostPanelConfig::default(): their names and urls.
RegA == "local-drift"

RegB == "docker-hub"

UrlA == "http://localhost:5000"

UrlB == "https://registry-1.docker.io"

RegNames == {RegA, RegB}

Urls == {UrlA, UrlB}

Usernames == {None, Some("user")}

Passwords == {None, Some("pw")}

\* RegistryConfig {name, url, username, password}.
Configs ==
    [name : RegNames, url : Urls, username : Usernames, password : Passwords]

Tokens == {"tok1", "tok2"}

Realms == {"https://auth/token", "https://auth2/token"}

Services == {"registry", "registry2"}

\* Fields get_auth_token does not know, as they follow realm and service.
Extras ==
    { <<>>,
      <<",", "scope=", Q, "repository:x:pull", ",", "push", Q>>,
      <<",", " ", "error=", Q, "invalid_token", Q>> }

\* WWW-Authenticate: Bearer realm="R",service="S" followed by `extra`.
Challenge(R, S, extra) ==
    <<"Bearer ", "realm=", Q, R, Q, ",", "service=", Q, S, Q>> \o extra

\* The WWW-Authenticate values a registry may answer the probe with.
Headers ==
    {Challenge(R, S, e) : R \in Realms, S \in Services, e \in Extras} \cup
    { <<"Bearer ", "service=", Q, "registry", Q, ",", " ",
        "realm=", Q, "https://auth/token", Q>>,
      <<"Bearer ", "realm=", "https://auth/token", ",", "service=", "registry">>,
      <<"Bearer ", "realm=", Q, "https://auth/token", Q>>,
      <<"Bearer ", "service=", Q, "registry", Q>>,
      <<"Bearer ", "scope=", Q, "repository:x:pull", Q>>,
      <<"Basic ", "realm=", Q, "https://auth/token", Q>>,
      <<"Bearer ", "realm=", Q, "\\x80", Q, ",", "service=", Q, "registry", Q>> }

Statuses == {200, 401, 500}

NetErr == [kind |-> "neterr", status |-> 0, www |-> None, body |-> None]

Http(status, www, body) ==
    [kind |-> "http", status |-> status, www |-> www, body |-> body]

\* What the probe GET {url}/v2/ may come back with.
ProbeResponses ==
    {NetErr} \cup
    {Http(s, h, None) : s \in Statuses, h \in {None} \cup {Some(x) : x \in Headers}}

\* What the token endpoint may come back with: body is the `token` field of
\* the JSON body, None when the body does not parse as {"token": "..."}.
TokenResponses ==
    {NetErr} \cup
    {Http(s, None, b) : s \in {200, 401}, b \in {None} \cup {Some(x) : x \in Tokens}}

(***************************************************************************)
(* State.                                                                  *)
(***************************************************************************)
VARIABLES
    registries,  \* RegistryManager.registries: name -> RegistryClient
    writer,      \* RwLock: the task holding the write guard (Option)
    readers,     \* RwLock: the tasks holding a read guard
    op,          \* per task: the outermost operation it runs
    arg,         \* per task: the argument of that operation
    pc,          \* per task: its position in that operation
    client,      \* per task: the RegistryClient it is building (Option)
    req,         \* per task: the requests in flight
    sent,        \* per task: the requests the current client call sent, in order
    rcvd,        \* per task: the responses the current client call received
    ret,         \* per task: what the current call returned
    loc          \* per task: the local variables of a search or lookup

vars ==
    <<registries, writer, readers, op, arg, pc, client, req, sent, rcvd, ret, loc>>

lockVars == <<writer, readers>>

EmptyMap == [n \in {} |-> None]

\* Mutant: an entry already under the key is kept.
MapInsertKeepFirst(m, k, v) ==
    [n \in DOMAIN m \cup {k} |-> IF n \in DOMAIN m THEN m[n] ELSE v]

\* HashMap::insert
MapInsert(m, k, v) == [n \in DOMAIN m \cup {k} |-> IF n = k THEN v ELSE m[n]]

\* Mutant: nothing is removed.
MapRemoveNothing(m, k) == m

\* HashMap::remove
MapRemove(m, k) == [n \in DOMAIN m \ {k} |-> m[n]]

\* The locals of search_images and of the handlers that look a client up:
\*   todo      the registries the `for` loop over the map has not reached
\*   reg       the name of the client in use
\*   repos     the repositories the loop has not reached; repo the current one
\*   tags      the tags the loop has not reached; tag the current one
\*   manifest  the manifest get_image_info got
\*   cres      the result of the last RegistryClient call
\*   results   the Vec search_images returns
\*   calls     (history) the RegistryClient calls made so far, with outcome
\*   listed    (history) the lists that list_repositories and list_tags
\*             returned to the search so far
NoLocals ==
    [todo |-> {}, reg |-> None, repos |-> <<>>, repo |-> None, tags |-> <<>>,
     tag |-> None, manifest |-> None, cres |-> None, results |-> <<>>,
     calls |-> {}, listed |-> {}]

\* RegistryClient::new
NewClient(config) == [config |-> config, auth_token |-> None]

InitTasks ==
    /\ op = [t \in Tasks |-> "idle"]
    /\ arg = [t \in Tasks |-> None]
    /\ pc = [t \in Tasks |-> "idle"]
    /\ client = [t \in Tasks |-> None]
    /\ req = [t \in Tasks |-> {}]
    /\ sent = [t \in Tasks |-> <<>>]
    /\ rcvd = [t \in Tasks |-> <<>>]
    /\ ret = [t \in Tasks |-> "none"]
    /\ loc = [t \in Tasks |-> NoLocals]

InitLock ==
    /\ writer = None
    /\ readers = {}

\* The state after RegistryManager::new(): no registry.
Init ==
    /\ registries = EmptyMap
    /\ InitLock
    /\ InitTasks

\* A task starts operation o with argument a.
Begin(t, o, a, at) ==
    /\ pc[t] = "idle"
    /\ op' = [op EXCEPT ![t] = o]
    /\ arg' = [arg EXCEPT ![t] = a]
    /\ pc' = [pc EXCEPT ![t] = at]

\* A task's operation is over: its locals are dropped.
Finish(t) ==
    /\ op' = [op EXCEPT ![t] = "idle"]
    /\ arg' = [arg EXCEPT ![t] = None]
    /\ pc' = [pc EXCEPT ![t] = "idle"]
    /\ client' = [client EXCEPT ![t] = None]
    /\ sent' = [sent EXCEPT ![t] = <<>>]
    /\ rcvd' = [rcvd EXCEPT ![t] = <<>>]
    /\ ret' = [ret EXCEPT ![t] = "none"]
    /\ loc' = [loc EXCEPT ![t] = NoLocals]

\* The first request of a client call: it is in flight until its response
\* is handled.
SendFirst(t, r) ==
    /\ req' = [req EXCEPT ![t] = @ \cup {r}]
    /\ sent' = [sent EXCEPT ![t] = <<r>>]
    /\ rcvd' = [rcvd EXCEPT ![t] = <<>>]

\* The awaited response r arrived, and the call sends its next request q.
ReceiveAndSend(t, r, q) ==
    /\ rcvd' = [rcvd EXCEPT ![t] = Append(@, r)]
    /\ req' = [req EXCEPT ![t] = (@ \ {sent[t][Len(sent[t])]}) \cup {q}]
    /\ sent' = [sent EXCEPT ![t] = Append(@, q)]

\* The awaited response r arrived, and the call sends nothing more.
Receive(t, r) ==
    /\ rcvd' = [rcvd EXCEPT ![t] = Append(@, r)]
    /\ req' = [req EXCEPT ![t] = @ \ {sent[t][Len(sent[t])]}]
    /\ UNCHANGED sent

\* A call that returns before sending anything.
NoTraffic(t) ==
    /\ sent' = [sent EXCEPT ![t] = <<>>]
    /\ rcvd' = [rcvd EXCEPT ![t] = <<>>]
    /\ UNCHANGED req

(***************************************************************************)
(* RegistryClient::authenticate (with get_auth_token inlined at its call). *)
(***************************************************************************)
\* Mutant: one of username and password is enough.
HasCredentialsEither(config) ==
    IsSome(config.username) \/ IsSome(config.password)

\* `if let (Some(username), Some(password))`: both are configured.
HasCredentials(config) == IsSome(config.username) /\ IsSome(config.password)

\* authenticate, up to its first await: no credentials means return Ok(())
\* at once, otherwise the probe is sent.
AuthEntry(t) ==
    /\ pc[t] = "auth_entry"
    /\ LET config == client[t][1].config IN
       IF HasCredentials(config)
       THEN /\ SendFirst(t, ProbeRequest(config))
            /\ pc' = [pc EXCEPT ![t] = "auth_probe"]
            /\ UNCHANGED ret
       ELSE /\ NoTraffic(t)
            /\ pc' = [pc EXCEPT ![t] = "auth_exit"]
            /\ ret' = [ret EXCEPT ![t] = "Ok"]
    /\ UNCHANGED <<registries, lockVars, op, arg, client, loc>>

\* What authenticate does with the probe's response r: "Err", "Ok" (done,
\* no token asked for) or the token request get_auth_token sends.
AfterProbe(config, r) ==
    IF r.kind = "neterr" THEN [next |-> "Err", request |-> None]
    ELSE IF r.status = 401 /\ IsSome(r.www)
    THEN LET auth_str == ToStr(r.www[1]) IN
         IF auth_str = None THEN [next |-> "Err", request |-> None]
         ELSE LET ch == ParseChallenge(auth_str[1]) IN
              IF IsSome(ch.realm) /\ IsSome(ch.service)
              THEN [next |-> "token",
                    request |-> Some(TokenRequest(ch.realm[1], ch.service[1],
                                                  config.username[1],
                                                  config.password[1]))]
              ELSE [next |-> "Ok", request |-> None]
    ELSE [next |-> "Ok", request |-> None]

\* The probe's response arrives.
AuthProbeResponse(t, r) ==
    /\ pc[t] = "auth_probe"
    /\ LET a == AfterProbe(client[t][1].config, r) IN
       IF a.next = "token"
       THEN /\ ReceiveAndSend(t, r, a.request[1])
            /\ pc' = [pc EXCEPT ![t] = "auth_token"]
            /\ UNCHANGED ret
       ELSE /\ Receive(t, r)
            /\ pc' = [pc EXCEPT ![t] = "auth_exit"]
            /\ ret' = [ret EXCEPT ![t] = a.next]
    /\ UNCHANGED <<registries, lockVars, op, arg, client, loc>>

\* What get_auth_token returns for the token endpoint's response r:
\* Err, Ok(Some(token)) or Ok(None).
TokenResult(r) ==
    IF r.kind = "neterr" THEN [ret |-> "Err", token |-> None]
    ELSE IF IsSuccess(r.status)
    THEN IF IsSome(r.body) THEN [ret |-> "Ok", token |-> r.body]
         ELSE [ret |-> "Err", token |-> None]
    ELSE [ret |-> "Ok", token |-> None]

\* The token endpoint's response arrives: authenticate stores a token it
\* got and returns.
AuthTokenResponse(t, r) ==
    /\ pc[t] = "auth_token"
    /\ LET g == TokenResult(r) IN
       /\ client' = [client EXCEPT ![t] =
                        IF IsSome(g.token)
                        THEN Some([@[1] EXCEPT !.auth_token = g.token])
                        ELSE @]
       /\ ret' = [ret EXCEPT ![t] = g.ret]
    /\ Receive(t, r)
    /\ pc' = [pc EXCEPT ![t] = "auth_exit"]
    /\ UNCHANGED <<registries, lockVars, op, arg, loc>>

\* A direct caller builds a client and calls authenticate on it.
CallAuthenticate(t, config) ==
    /\ Begin(t, "authenticate", Some(config), "auth_entry")
    /\ client' = [client EXCEPT ![t] = Some(NewClient(config))]
    /\ UNCHANGED <<registries, lockVars, req, sent, rcvd, ret, loc>>

\* The direct caller has seen the result and drops the client.
AuthenticateDone(t) ==
    /\ op[t] = "authenticate"
    /\ pc[t] = "auth_exit"
    /\ Finish(t)
    /\ UNCHANGED <<registries, lockVars, req>>

NextAuth ==
    \/ \E c \in Configs : CallAuthenticate(Caller, c)
    \/ AuthEntry(Caller)
    \/ \E r \in ProbeResponses : AuthProbeResponse(Caller, r)
    \/ \E r \in TokenResponses : AuthTokenResponse(Caller, r)
    \/ AuthenticateDone(Caller)

\* One caller authenticating clients, one after the other.
SpecAuth == Init /\ [][NextAuth]_vars

(***************************************************************************)
(* RegistryManager: add_registry, remove_registry, get_registry,           *)
(* list_registries.                                                        *)
(***************************************************************************)
AddOps == {"add_registry", "h_add_registry"}

\* add_registry up to the await on authenticate: the client is built.
AddRegistryEntry(t) ==
    /\ pc[t] = "add_entry"
    /\ client' = [client EXCEPT ![t] = Some(NewClient(arg[t][1]))]
    /\ pc' = [pc EXCEPT ![t] = "auth_entry"]
    /\ UNCHANGED <<registries, lockVars, op, arg, req, sent, rcvd, ret, loc>>

\* Mutant: the client is inserted whatever authenticate returned.
AddRegistryInsertAlways(t) ==
    /\ op[t] \in AddOps
    /\ pc[t] = "auth_exit"
    /\ registries' = MapInsert(registries, client[t][1].config.name,
                               client[t][1])
    /\ loc' = [loc EXCEPT ![t].cres =
                  IF client[t][1].config.name \in DOMAIN registries
                  THEN Some(registries[client[t][1].config.name])
                  ELSE None]
    /\ pc' = [pc EXCEPT ![t] = "add_exit"]
    /\ UNCHANGED <<lockVars, op, arg, client, req, sent, rcvd, ret>>

\* add_registry after authenticate returned: `?` propagates its error,
\* otherwise the client is inserted under its name.  HashMap::insert hands
\* back the client that was there before, which is dropped; cres keeps it
\* as history.
AddRegistryInsert(t) ==
    /\ op[t] \in AddOps
    /\ pc[t] = "auth_exit"
    /\ IF ret[t] = "Err"
       THEN UNCHANGED <<registries, loc>>
       ELSE /\ registries' = MapInsert(registries, client[t][1].config.name,
                                       client[t][1])
            /\ loc' = [loc EXCEPT ![t].cres =
                          IF client[t][1].config.name \in DOMAIN registries
                          THEN Some(registries[client[t][1].config.name])
                          ELSE None]
    /\ pc' = [pc EXCEPT ![t] = "add_exit"]
    /\ UNCHANGED <<lockVars, op, arg, client, req, sent, rcvd, ret>>

\* get_registry(name)
GetRegistry(name) ==
    IF name \in DOMAIN registries THEN Some(registries[name]) ELSE None

\* list_registries()
ListRegistries == DOMAIN registries

\* The owner of the manager calls add_registry(config).
CallAddRegistry(t, config) ==
    /\ Begin(t, "add_registry", Some(config), "add_entry")
    /\ UNCHANGED <<registries, lockVars, client, req, sent, rcvd, ret, loc>>

\* The owner of the manager calls remove_registry(name): the entry is
\* removed and the call returns whether there was one.
CallRemoveRegistry(t, name) ==
    /\ Begin(t, "remove_registry", Some(name), "remove_exit")
    /\ registries' = MapRemove(registries, name)
    /\ ret' = [ret EXCEPT ![t] = IF name \in DOMAIN registries
                                 THEN "true" ELSE "false"]
    /\ UNCHANGED <<lockVars, client, req, sent, rcvd, loc>>

\* The owner has seen the result of its call.
ManagerCallDone(t) ==
    /\ \/ op[t] = "add_registry" /\ pc[t] = "add_exit"
       \/ op[t] = "remove_registry" /\ pc[t] = "remove_exit"
    /\ Finish(t)
    /\ UNCHANGED <<registries, lockVars, req>>

NextManager ==
    \/ \E c \in Configs : CallAddRegistry(Caller, c)
    \/ \E n \in RegNames : CallRemoveRegistry(Caller, n)
    \/ AddRegistryEntry(Caller)
    \/ AuthEntry(Caller)
    \/ \E r \in ProbeResponses : AuthProbeResponse(Caller, r)
    \/ \E r \in TokenResponses : AuthTokenResponse(Caller, r)
    \/ AddRegistryInsert(Caller)
    \/ ManagerCallDone(Caller)

\* One owner calling add_registry and remove_registry, one after the other
\* (the start-up loop of main, before the manager is shared).
SpecManager == Init /\ [][NextManager]_vars

(***************************************************************************)
(* What a registry holds and answers.                                      *)
(***************************************************************************)
\* Repository names and queries are sequences of characters.
Nginx == <<"n", "g", "i", "n", "x">>

Redis == <<"r", "e", "d", "i", "s">>

\* The `repositories` a catalog answer may list.
RepoLists == {<<Nginx>>, <<Redis, Nginx>>}

\* The `tags` a tag list answer may hold.
TagLists == {<<"v1", "v2">>, <<>>}

\* The search strings: "ngin", "i" (in both names) and "xy" (in none).
Queries == {<<"n", "g", "i", "n">>, <<"i">>, <<"x", "y">>}

\* A u64 is kept as four 16-bit limbs, most significant first, so that
\* its whole range is there.
Limb == 65536

U64(n) == <<0, 0, n \div Limb, n % Limb>>

U64Max == <<Limb - 1, Limb - 1, Limb - 1, Limb - 1>>

\* a + b on u64: the wrapped sum, and whether it overflowed.
AddU64(a, b) ==
    LET s4 == a[4] + b[4]
        s3 == a[3] + b[3] + s4 \div Limb
        s2 == a[2] + b[2] + s3 \div Limb
        s1 == a[1] + b[1] + s2 \div Limb
    IN  [val |-> <<s1 % Limb, s2 % Limb, s3 % Limb, s4 % Limb>>,
         overflow |-> s1 \div Limb > 0]

\* Descriptor {digest, size}, size given as a small number.
Descriptor(digest, size) == [digest |-> digest, size |-> U64(size)]

\* ImageManifest {config, layers}
Manifests ==
    { [config |-> Descriptor("sha256:c1", 7),
       layers |-> <<Descriptor("sha256:l1", 100), Descriptor("sha256:l2", 250)>>] }

\* The config blob as a JSON object: its `created` and `author` members,
\* each absent or a JSON value.
JsonStr(v) == [type |-> "string", v |-> v]

ConfigBlobs ==
    { [created |-> Some(JsonStr("2024-05-01T10:00:00Z")),
       author |-> Some(JsonStr("alice"))] }

\* The strings chrono::DateTime::parse_from_rfc3339 accepts.
Rfc3339 == {"2024-05-01T10:00:00Z"}

\* GET /v2/_catalog may come back with a network error, a non-success
\* status, a body that is no RepositoryList, or a RepositoryList.
CatalogResponses ==
    {NetErr, Http(500, None, None), Http(200, None, None)} \cup
    {Http(200, None, Some(l)) : l \in RepoLists}

\* GET /v2/{repo}/tags/list
TagsResponses ==
    {NetErr, Http(404, None, None)} \cup
    {Http(200, None, Some(l)) : l \in TagLists}

\* GET /v2/{repo}/manifests/{tag}
ManifestResponses ==
    {NetErr, Http(404, None, None), Http(200, None, None)} \cup
    {Http(200, None, Some(m)) : m \in Manifests}

\* GET /v2/{repo}/blobs/{digest}: body is the JSON value, None when the
\* body is not JSON.
BlobResponses ==
    {NetErr, Http(200, None, None)} \cup
    {Http(st, None, Some(b)) : st \in {200, 404}, b \in ConfigBlobs}

(***************************************************************************)
(* RegistryClient: list_repositories, list_tags, get_manifest,             *)
(* get_image_info.                                                         *)
(***************************************************************************)
\* Mutant: the token of whichever registered client has one is attached.
AuthOfAnyClient(c) ==
    IF \E n \in DOMAIN registries : IsSome(registries[n].auth_token)
    THEN BearerAuth(registries[CHOOSE n \in DOMAIN registries :
                                   IsSome(registries[n].auth_token)].auth_token[1])
    ELSE NoAuth

\* `if let Some(token) = &self.auth_token { request.bearer_auth(token) }`
AuthOf(c) == IF IsSome(c.auth_token) THEN BearerAuth(c.auth_token[1]) ELSE NoAuth

CatalogRequest(c) ==
    Request("catalog", "GET", <<c.config.url, "/v2/_catalog">>, AuthOf(c))

TagsRequest(c, repository) ==
    Request("tags", "GET", <<c.config.url, "/v2/", repository, "/tags/list">>,
            AuthOf(c))

ManifestRequest(c, repository, tag) ==
    Request("manifest", "GET",
            <<c.config.url, "/v2/", repository, "/manifests/", tag>>, AuthOf(c))

BlobRequest(c, repository, digest) ==
    Request("blob", "GET",
            <<c.config.url, "/v2/", repository, "/blobs/", digest>>, AuthOf(c))

Ok(v) == [ok |-> TRUE, val |-> v]

Err == [ok |-> FALSE, val |-> None]

\* Mutant: the status of the response is not looked at.
JsonResultAnyStatus(r) ==
    IF r.kind = "neterr" THEN [ok |-> FALSE, val |-> None]
    ELSE IF r.body = None THEN [ok |-> FALSE, val |-> None]
    ELSE [ok |-> TRUE, val |-> r.body[1]]

\* list_repositories, list_tags and get_manifest treat a response alike:
\* send()? fails, a non-success status fails, json()? fails, else the body.
JsonResult(r) ==
    IF r.kind = "neterr" THEN Err
    ELSE IF ~ IsSuccess(r.status) THEN Err
    ELSE IF r.body = None THEN Err
    ELSE Ok(r.body[1])

RECURSIVE SumFrom(_, _)
\* Iterator::sum over u64, from the accumulator acc: each step is
\* acc + size, which wraps (release build) once it overflows.
SumFrom(acc, layers) ==
    IF layers = <<>> THEN acc
    ELSE LET a == AddU64(acc.val, Head(layers).size) IN
         SumFrom([val |-> a.val, overflow |-> acc.overflow \/ a.overflow],
                 Tail(layers))

\* manifest.layers.iter().map(|l| l.size).sum()
SumSizes(layers) == SumFrom([val |-> U64(0), overflow |-> FALSE], layers)

\* Mutant: any string is taken as the time of creation.
CreatedOfAnyString(config_data) ==
    IF IsSome(config_data.created) /\ config_data.created[1].type = "string"
    THEN config_data.created[1].v
    ELSE "now"

\* created: the `created` member when it is a string that parses as
\* RFC3339, else Utc::now().
CreatedOf(config_data) ==
    IF IsSome(config_data.created)
       /\ config_data.created[1].type = "string"
       /\ config_data.created[1].v \in Rfc3339
    THEN config_data.created[1].v
    ELSE "now"

\* author: the `author` member when it is a string.
AuthorOf(config_data) ==
    IF IsSome(config_data.author) /\ config_data.author[1].type = "string"
    THEN Some(config_data.author[1].v)
    ELSE None

\* The rest of get_image_info once the config blob's response r is there:
\* the status of r is not looked at.
ImageInfoResult(repository, tag, manifest, r) ==
    IF r.kind = "neterr" THEN Err
    ELSE IF r.body = None THEN Err
    ELSE Ok([repository |-> repository,
             tag |-> tag,
             digest |-> manifest.config.digest,
             size |-> SumSizes(manifest.layers).val,
             created |-> CreatedOf(r.body[1]),
             author |-> AuthorOf(r.body[1]),
             layers |-> manifest.layers])

\* The client a search or a handler works on: a reference into the map.
ClientOf(t) == registries[loc[t].reg[1]]

\* The response to GET /v2/_catalog arrives: list_repositories returns.
ListRepositoriesResponse(t, r) ==
    /\ pc[t] = "catalog_wait"
    /\ Receive(t, r)
    /\ loc' = [loc EXCEPT ![t].cres = Some(JsonResult(r))]
    /\ pc' = [pc EXCEPT ![t] = "catalog_ret"]
    /\ UNCHANGED <<registries, lockVars, op, arg, client, ret>>

\* The response to GET /v2/{repo}/tags/list arrives: list_tags returns.
ListTagsResponse(t, r) ==
    /\ pc[t] = "tags_wait"
    /\ Receive(t, r)
    /\ loc' = [loc EXCEPT ![t].cres = Some(JsonResult(r))]
    /\ pc' = [pc EXCEPT ![t] = "tags_ret"]
    /\ UNCHANGED <<registries, lockVars, op, arg, client, ret>>

\* get_image_info: the manifest's response arrives.  An error of
\* get_manifest is returned (`?`); otherwise the layer sizes are summed and
\* the config blob is asked for.  A sum that overflows u64 panics in a build
\* with overflow checks and wraps in one without.
GetManifestResponse(t, r) ==
    /\ pc[t] = "manifest_wait"
    /\ LET m == JsonResult(r) IN
       IF m.ok
       THEN \/ /\ ReceiveAndSend(t, r, BlobRequest(ClientOf(t), loc[t].repo[1],
                                                   m.val.config.digest))
               /\ loc' = [loc EXCEPT ![t].manifest = Some(m.val)]
               /\ pc' = [pc EXCEPT ![t] = "blob_wait"]
            \/ /\ SumSizes(m.val.layers).overflow
               /\ Receive(t, r)
               /\ loc' = [loc EXCEPT ![t].manifest = Some(m.val)]
               /\ pc' = [pc EXCEPT ![t] = "panicked"]
       ELSE /\ Receive(t, r)
            /\ loc' = [loc EXCEPT ![t].cres = Some(Err)]
            /\ pc' = [pc EXCEPT ![t] = "image_info_ret"]
    /\ UNCHANGED <<registries, lockVars, op, arg, client, ret>>

\* get_image_info: the config blob's response arrives and the call returns.
ConfigBlobResponse(t, r) ==
    /\ pc[t] = "blob_wait"
    /\ Receive(t, r)
    /\ loc' = [loc EXCEPT ![t].cres =
                  Some(ImageInfoResult(loc[t].repo[1], loc[t].tag[1],
                                       loc[t].manifest[1], r))]
    /\ pc' = [pc EXCEPT ![t] = "image_info_ret"]
    /\ UNCHANGED <<registries, lockVars, op, arg, client, ret>>

(***************************************************************************)
(* RegistryManager::search_images.                                         *)
(***************************************************************************)
SearchOps == {"search_images", "h_search_images"}

\* str::contains: q is a substring of s.
Contains(s, q) ==
    \E i \in 0..(Len(s) - Len(q)) : SubSeq(s, i + 1, i + Len(q)) = q

\* A finished RegistryClient call, for the history.
CallRecord(fn, l, ok) ==
    [fn |-> fn, reg |-> l.reg[1],
     repo |-> IF fn = "list_repositories" THEN None ELSE l.repo,
     tag |-> IF fn = "get_image_info" THEN l.tag ELSE None,
     ok |-> ok]

\* A list that list_repositories (repo None) or list_tags returned, for the
\* history.
Listing(l, repo, res) ==
    IF res.ok THEN {[reg |-> l.reg[1], repo |-> repo, val |-> res.val]} ELSE {}

\* The query of a search: the argument of search_images, or the `query`
\* of the handler's request.
QueryOf(t) ==
    IF op[t] = "h_search_images" THEN arg[t][1].query ELSE arg[t][1]

\* The registries a search goes through: all of them for search_images; a
\* request that names a registry has the handler run the same loops on
\* that one client, and on none when get_registry finds nothing.
SearchScope(t) ==
    IF op[t] = "h_search_images" /\ IsSome(arg[t][1].registry)
    THEN {arg[t][1].registry[1]} \cap DOMAIN registries
    ELSE DOMAIN registries

\* search_images starts: `results` is empty and the loop over the map has
\* every registry before it.
SearchEntry(t) ==
    /\ op[t] \in SearchOps
    /\ pc[t] = "search_entry"
    /\ loc' = [loc EXCEPT ![t] = [NoLocals EXCEPT !.todo = SearchScope(t)]]
    /\ pc' = [pc EXCEPT ![t] = "search_next_registry"]
    /\ UNCHANGED <<registries, lockVars, op, arg, client, req, sent, rcvd, ret>>

\* Mutant: the requests to all registries are sent at once.
SearchAllRegistries(t) ==
    /\ pc[t] = "search_next_registry"
    /\ loc[t].todo # {}
    /\ \E n \in loc[t].todo :
        /\ loc' = [loc EXCEPT ![t].todo = {}, ![t].reg = Some(n)]
        /\ req' = [req EXCEPT ![t] =
                      @ \cup {CatalogRequest(registries[m]) : m \in loc[t].todo}]
        /\ sent' = [sent EXCEPT ![t] = <<CatalogRequest(registries[n])>>]
        /\ rcvd' = [rcvd EXCEPT ![t] = <<>>]
    /\ pc' = [pc EXCEPT ![t] = "catalog_wait"]
    /\ UNCHANGED <<registries, lockVars, op, arg, client, ret>>

\* `for (registry_name, client) in &self.registries`: the map's order is
\* arbitrary.  The next client's list_repositories is called, or the loop
\* is over and search_images returns Ok(results).
SearchNextRegistry(t) ==
    /\ pc[t] = "search_next_registry"
    /\ IF loc[t].todo = {}
       THEN /\ pc' = [pc EXCEPT ![t] = "search_exit"]
            /\ ret' = [ret EXCEPT ![t] = "Ok"]
            /\ UNCHANGED <<loc, req, sent, rcvd>>
       ELSE \E n \in loc[t].todo :
            /\ loc' = [loc EXCEPT ![t].todo = @ \ {n}, ![t].reg = Some(n)]
            /\ SendFirst(t, CatalogRequest(registries[n]))
            /\ pc' = [pc EXCEPT ![t] = "catalog_wait"]
            /\ UNCHANGED ret
    /\ UNCHANGED <<registries, lockVars, op, arg, client>>

\* Mutant: `client.list_repositories().await?`, the error is returned.
SearchAfterCatalogPropagate(t) ==
    /\ op[t] \in SearchOps
    /\ pc[t] = "catalog_ret"
    /\ LET res == loc[t].cres[1] IN
       /\ loc' = [loc EXCEPT
                    ![t].repos = IF res.ok THEN res.val ELSE <<>>,
                    ![t].cres = None,
                    ![t].calls = @ \cup
                        {CallRecord("list_repositories", loc[t], res.ok)},
                    ![t].listed = @ \cup Listing(loc[t], None, res)]
       /\ pc' = [pc EXCEPT ![t] = IF res.ok THEN "search_next_repo"
                                  ELSE "search_exit"]
       /\ ret' = [ret EXCEPT ![t] = IF res.ok THEN @ ELSE "Err"]
    /\ UNCHANGED <<registries, lockVars, op, arg, client, req, sent, rcvd>>

\* `if let Ok(repositories) = client.list_repositories().await`
SearchAfterCatalog(t) ==
    /\ op[t] \in SearchOps
    /\ pc[t] = "catalog_ret"
    /\ LET res == loc[t].cres[1] IN
       /\ loc' = [loc EXCEPT
                    ![t].repos = IF res.ok THEN res.val ELSE <<>>,
                    ![t].cres = None,
                    ![t].calls = @ \cup
                        {CallRecord("list_repositories", loc[t], res.ok)},
                    ![t].listed = @ \cup Listing(loc[t], None, res)]
       /\ pc' = [pc EXCEPT ![t] = IF res.ok THEN "search_next_repo"
                                  ELSE "search_next_registry"]
    /\ UNCHANGED <<registries, lockVars, op, arg, client, req, sent, rcvd, ret>>

\* Mutant: list_tags is called for every repository, whatever its name.
SearchNextRepoNoFilter(t) ==
    /\ pc[t] = "search_next_repo"
    /\ IF loc[t].repos = <<>>
       THEN /\ pc' = [pc EXCEPT ![t] = "search_next_registry"]
            /\ UNCHANGED <<loc, req, sent, rcvd>>
       ELSE LET repo == Head(loc[t].repos) IN
            /\ loc' = [loc EXCEPT ![t].repos = Tail(@), ![t].repo = Some(repo)]
            /\ SendFirst(t, TagsRequest(ClientOf(t), repo))
            /\ pc' = [pc EXCEPT ![t] = "tags_wait"]
    /\ UNCHANGED <<registries, lockVars, op, arg, client, ret>>

\* `for repo in repositories { if repo.contains(query) {`: list_tags is
\* called for the next repository when its name holds the query.
SearchNextRepo(t) ==
    /\ pc[t] = "search_next_repo"
    /\ IF loc[t].repos = <<>>
       THEN /\ pc' = [pc EXCEPT ![t] = "search_next_registry"]
            /\ UNCHANGED <<loc, req, sent, rcvd>>
       ELSE LET repo == Head(loc[t].repos) IN
            /\ loc' = [loc EXCEPT ![t].repos = Tail(@), ![t].repo = Some(repo)]
            /\ IF Contains(repo, QueryOf(t))
               THEN /\ SendFirst(t, TagsRequest(ClientOf(t), repo))
                    /\ pc' = [pc EXCEPT ![t] = "tags_wait"]
               ELSE /\ UNCHANGED <<pc, req, sent, rcvd>>
    /\ UNCHANGED <<registries, lockVars, op, arg, client, ret>>

\* `if let Ok(tags) = client.list_tags(&repo).await`
SearchAfterTags(t) ==
    /\ op[t] \in SearchOps
    /\ pc[t] = "tags_ret"
    /\ LET res == loc[t].cres[1] IN
       /\ loc' = [loc EXCEPT
                    ![t].tags = IF res.ok THEN res.val ELSE <<>>,
                    ![t].cres = None,
                    ![t].calls = @ \cup {CallRecord("list_tags", loc[t], res.ok)},
                    ![t].listed = @ \cup Listing(loc[t], loc[t].repo, res)]
       /\ pc' = [pc EXCEPT ![t] = IF res.ok THEN "search_next_tag"
                                  ELSE "search_next_repo"]
    /\ UNCHANGED <<registries, lockVars, op, arg, client, req, sent, rcvd, ret>>

\* `for tag in tags`: get_image_info is called for the next tag.
SearchNextTag(t) ==
    /\ pc[t] = "search_next_tag"
    /\ IF loc[t].tags = <<>>
       THEN /\ pc' = [pc EXCEPT ![t] = "search_next_repo"]
            /\ UNCHANGED <<loc, req, sent, rcvd>>
       ELSE LET tag == Head(loc[t].tags) IN
            /\ loc' = [loc EXCEPT ![t].tags = Tail(@), ![t].tag = Some(tag),
                                  ![t].manifest = None]
            /\ SendFirst(t, ManifestRequest(ClientOf(t), loc[t].repo[1], tag))
            /\ pc' = [pc EXCEPT ![t] = "manifest_wait"]
    /\ UNCHANGED <<registries, lockVars, op, arg, client, ret>>

\* `if let Ok(image_info) = client.get_image_info(..).await { results.push`
SearchAfterImageInfo(t) ==
    /\ op[t] \in SearchOps
    /\ pc[t] = "image_info_ret"
    /\ LET res == loc[t].cres[1] IN
       loc' = [loc EXCEPT
                 ![t].results = IF res.ok
                                THEN Append(@, <<loc[t].reg[1], res.val>>)
                                ELSE @,
                 ![t].cres = None,
                 ![t].calls = @ \cup {CallRecord("get_image_info", loc[t], res.ok)}]
    /\ pc' = [pc EXCEPT ![t] = "search_next_tag"]
    /\ UNCHANGED <<registries, lockVars, op, arg, client, req, sent, rcvd, ret>>

\* The owner of the manager calls search_images(query).
CallSearchImages(t, query) ==
    /\ Begin(t, "search_images", Some(query), "search_entry")
    /\ UNCHANGED <<registries, lockVars, client, req, sent, rcvd, ret, loc>>

\* The owner has the Vec search_images returned.
SearchImagesDone(t) ==
    /\ op[t] = "search_images"
    /\ pc[t] = "search_exit"
    /\ Finish(t)
    /\ UNCHANGED <<registries, lockVars, req>>

\* The clients a manager may hold under name n, after add_registry.
ClientsNamed(n) ==
    { [config |-> [name |-> n, url |-> UrlA, username |-> None,
                   password |-> None],
       auth_token |-> None],
      [config |-> [name |-> n, url |-> UrlB, username |-> Some("user"),
                   password |-> Some("pw")],
       auth_token |-> Some("tok1")] }

\* A manager that holds some registries, each added by add_registry.
InitSearch ==
    /\ \E names \in SUBSET RegNames :
           registries \in [names -> UNION {ClientsNamed(n) : n \in RegNames}]
    /\ \A n \in DOMAIN registries : registries[n] \in ClientsNamed(n)
    /\ InitLock
    /\ InitTasks

NextSearch ==
    \/ \E q \in Queries : CallSearchImages(Caller, q)
    \/ SearchEntry(Caller)
    \/ SearchNextRegistry(Caller)
    \/ \E r \in CatalogResponses : ListRepositoriesResponse(Caller, r)
    \/ SearchAfterCatalog(Caller)
    \/ SearchNextRepo(Caller)
    \/ \E r \in TagsResponses : ListTagsResponse(Caller, r)
    \/ SearchAfterTags(Caller)
    \/ SearchNextTag(Caller)
    \/ \E r \in ManifestResponses : GetManifestResponse(Caller, r)
    \/ \E r \in BlobResponses : ConfigBlobResponse(Caller, r)
    \/ SearchAfterImageInfo(Caller)
    \/ SearchImagesDone(Caller)

\* One owner of a manager with registries calling search_images.
SpecSearch == InitSearch /\ [][NextSearch]_vars

(***************************************************************************)
(* The agent: request handlers sharing Arc<RwLock<RegistryManager>>.       *)
(* A guard lives until its handler returns.  Which waiting task gets the   *)
(* lock next is left open.                                                 *)
(***************************************************************************)
HandlerOps ==
    {"h_add_registry", "h_remove_registry", "h_list_repositories",
     "h_search_images", "h_list_registries"}

\* RegistryConfig of GhostPanelConfig::default() for name n.
DefaultConfig(n) ==
    [name |-> n, url |-> IF n = RegA THEN UrlA ELSE UrlB,
     username |-> None, password |-> None]

\* The add-registry requests the agent is sent.
AgentConfigs ==
    { [name |-> RegA, url |-> UrlA, username |-> Some("user"),
       password |-> Some("pw")],
      [name |-> RegB, url |-> UrlA, username |-> None, password |-> None] }

\* The search requests the agent is sent.
AgentSearches ==
    { [query |-> <<"n", "g", "i", "n">>, registry |-> None],
      [query |-> <<"n", "g", "i", "n">>, registry |-> Some(RegB)] }

\* What the registries answer the agent's requests with.
AgentProbeResponses ==
    { NetErr,
      Http(200, None, None),
      Http(401, Some(Challenge("https://auth/token", "registry", <<>>)), None),
      Http(401, Some(<<"Bearer ", "realm=", Q, "https://auth/token", Q>>), None) }

AgentTokenResponses == {Http(200, None, Some("tok1")), Http(401, None, None)}

AgentCatalogResponses == {NetErr, Http(200, None, Some(<<Nginx>>))}

AgentTagsResponses == {Http(404, None, None), Http(200, None, Some(<<"v1">>))}

AgentManifestResponses ==
    {Http(404, None, None)} \cup {Http(200, None, Some(m)) : m \in Manifests}

AgentBlobResponses == {Http(200, None, Some(b)) : b \in ConfigBlobs}

\* The state main leaves: the registries of the default config were added
\* (neither has credentials, so each add_registry succeeded), and the
\* manager was put behind the lock.
InitAgent ==
    /\ registries = [n \in RegNames |-> NewClient(DefaultConfig(n))]
    /\ InitLock
    /\ InitTasks

\* POST /api/v1/registries: up to `registry_manager.write().await`.
HAddRegistry(t, config) ==
    /\ Begin(t, "h_add_registry", Some(config), "write_wait")
    /\ UNCHANGED <<registries, lockVars, client, req, sent, rcvd, ret, loc>>

\* DELETE /api/v1/registries/:name: up to `registry_manager.write().await`.
HRemoveRegistry(t, name) ==
    /\ Begin(t, "h_remove_registry", Some(name), "write_wait")
    /\ UNCHANGED <<registries, lockVars, client, req, sent, rcvd, ret, loc>>

\* GET /api/v1/registries/:name/repositories: up to `read().await`.
HListRepositories(t, name) ==
    /\ Begin(t, "h_list_repositories", Some(name), "read_wait")
    /\ UNCHANGED <<registries, lockVars, client, req, sent, rcvd, ret, loc>>

\* POST /api/v1/images/search: up to `read().await`.
HSearchImages(t, request) ==
    /\ Begin(t, "h_search_images", Some(request), "read_wait")
    /\ UNCHANGED <<registries, lockVars, client, req, sent, rcvd, ret, loc>>

\* Mutant: a write guard is granted while read guards are out.
CanWriteDespiteReaders == writer = None

\* RwLock::write: granted when no guard is out.
CanWrite == writer = None /\ readers = {}

\* Mutant: a read guard is granted while the write guard is out.
CanReadDespiteWriter == TRUE

\* RwLock::read: granted when no write guard is out.
CanRead == writer = None

\* `write().await` completes: the task holds the write guard.
AcquireWrite(t) ==
    /\ pc[t] = "write_wait"
    /\ CanWrite
    /\ writer' = Some(t)
    /\ pc' = [pc EXCEPT ![t] = IF op[t] = "h_add_registry" THEN "add_entry"
                               ELSE "remove_locked"]
    /\ UNCHANGED <<registries, readers, op, arg, client, req, sent, rcvd, ret, loc>>

\* `read().await` completes: the task holds a read guard.
AcquireRead(t) ==
    /\ pc[t] = "read_wait"
    /\ CanRead
    /\ readers' = readers \cup {t}
    /\ pc' = [pc EXCEPT ![t] = IF op[t] = "h_search_images" THEN "search_entry"
                               ELSE "lookup"]
    /\ UNCHANGED <<registries, writer, op, arg, client, req, sent, rcvd, ret, loc>>

\* add_registry's handler after manager.add_registry returned: the
\* response is built and the write guard is dropped.
HAddRegistryRespond(t) ==
    /\ op[t] = "h_add_registry"
    /\ pc[t] = "add_exit"
    /\ writer' = None
    /\ pc' = [pc EXCEPT ![t] = "h_exit"]
    /\ UNCHANGED <<registries, readers, op, arg, client, req, sent, rcvd, ret, loc>>

\* remove_registry's handler under the write guard: the entry is removed,
\* the response says whether there was one, the guard is dropped.
HRemoveRegistryLocked(t) ==
    /\ op[t] = "h_remove_registry"
    /\ pc[t] = "remove_locked"
    /\ registries' = MapRemove(registries, arg[t][1])
    /\ ret' = [ret EXCEPT ![t] = IF arg[t][1] \in DOMAIN registries
                                 THEN "true" ELSE "false"]
    /\ writer' = None
    /\ pc' = [pc EXCEPT ![t] = "h_exit"]
    /\ UNCHANGED <<readers, op, arg, client, req, sent, rcvd, loc>>

\* list_repositories' handler under the read guard: get_registry, then
\* client.list_repositories() is called, or NOT_FOUND is answered.
HListRepositoriesLookup(t) ==
    /\ op[t] = "h_list_repositories"
    /\ pc[t] = "lookup"
    /\ IF IsSome(GetRegistry(arg[t][1]))
       THEN /\ loc' = [loc EXCEPT ![t].reg = arg[t]]
            /\ SendFirst(t, CatalogRequest(GetRegistry(arg[t][1])[1]))
            /\ pc' = [pc EXCEPT ![t] = "catalog_wait"]
            /\ UNCHANGED <<readers, ret>>
       ELSE /\ ret' = [ret EXCEPT ![t] = "NOT_FOUND"]
            /\ readers' = readers \ {t}
            /\ pc' = [pc EXCEPT ![t] = "h_exit"]
            /\ UNCHANGED <<loc, req, sent, rcvd>>
    /\ UNCHANGED <<registries, writer, op, arg, client>>

\* list_repositories' handler after client.list_repositories() returned.
HListRepositoriesRespond(t) ==
    /\ op[t] = "h_list_repositories"
    /\ pc[t] = "catalog_ret"
    /\ ret' = [ret EXCEPT ![t] = IF loc[t].cres[1].ok THEN "Ok"
                                 ELSE "INTERNAL_SERVER_ERROR"]
    /\ readers' = readers \ {t}
    /\ pc' = [pc EXCEPT ![t] = "h_exit"]
    /\ UNCHANGED <<registries, writer, op, arg, client, req, sent, rcvd, loc>>

\* search_images' handler after the search: the response is built from
\* the results and the read guard is dropped.
HSearchImagesRespond(t) ==
    /\ op[t] = "h_search_images"
    /\ pc[t] = "search_exit"
    /\ readers' = readers \ {t}
    /\ pc' = [pc EXCEPT ![t] = "h_exit"]
    /\ UNCHANGED <<registries, writer, op, arg, client, req, sent, rcvd, ret, loc>>

\* The response of a handler was sent.
HandlerDone(t) ==
    /\ op[t] \in HandlerOps
    /\ pc[t] = "h_exit"
    /\ Finish(t)
    /\ UNCHANGED <<registries, lockVars, req>>

Next ==
    \E t \in Tasks :
        \/ \E c \in AgentConfigs : HAddRegistry(t, c)
        \/ \E n \in RegNames : HRemoveRegistry(t, n)
        \/ \E n \in RegNames : HListRepositories(t, n)
        \/ \E s \in AgentSearches : HSearchImages(t, s)
        \/ AcquireWrite(t)
        \/ AcquireRead(t)
        \/ AddRegistryEntry(t)
        \/ AuthEntry(t)
        \/ \E r \in AgentProbeResponses : AuthProbeResponse(t, r)
        \/ \E r \in AgentTokenResponses : AuthTokenResponse(t, r)
        \/ AddRegistryInsert(t)
        \/ HAddRegistryRespond(t)
        \/ HRemoveRegistryLocked(t)
        \/ HListRepositoriesLookup(t)
        \/ \E r \in AgentCatalogResponses : ListRepositoriesResponse(t, r)
        \/ HListRepositoriesRespond(t)
        \/ SearchEntry(t)
        \/ SearchNextRegistry(t)
        \/ SearchAfterCatalog(t)
        \/ SearchNextRepo(t)
        \/ \E r \in AgentTagsResponses : ListTagsResponse(t, r)
        \/ SearchAfterTags(t)
        \/ SearchNextTag(t)
        \/ \E r \in AgentManifestResponses : GetManifestResponse(t, r)
        \/ \E r \in AgentBlobResponses : ConfigBlobResponse(t, r)
        \/ SearchAfterImageInfo(t)
        \/ HSearchImagesRespond(t)
        \/ HandlerDone(t)

\* The agent serving requests concurrently.
Spec == InitAgent /\ [][Next]_vars

(***************************************************************************)
(* The agent's listing of the registries, GET /api/v1/registries.          *)
(***************************************************************************)
\* state.config.registries as main builds it: GhostPanelConfig::default().
DefaultRegistries ==
    << [name |-> RegA, url |-> UrlA, username |-> None, password |-> None,
        insecure |-> TRUE],
       [name |-> RegB, url |-> UrlB, username |-> None, password |-> None,
        insecure |-> FALSE] >>

\* The Vec<RegistryConfig> a GhostPanelConfig may hold: the default one,
\* and one registry with each field of RegistryConfig varied.
ListingConfigs ==
    {DefaultRegistries} \cup
    { << [name |-> RegA, url |-> UrlA, username |-> u, password |-> p,
          insecure |-> i] >> :
        u \in {None, Some("user"), Some("admin")},
        p \in {None, Some("pw"), Some("hunter2")},
        i \in BOOLEAN }

\* Mutant: the entry carries the username too.
RegistryListingWithUsername(configs) ==
    [i \in 1..Len(configs) |->
        [name |-> configs[i].name, url |-> configs[i].url,
         has_auth |-> IsSome(configs[i].username) /\ IsSome(configs[i].password),
         insecure |-> configs[i].insecure,
         username |-> configs[i].username]]

\* .iter().map(|r| RegistryConfigResponse {..}).collect()
RegistryListing(configs) ==
    [i \in 1..Len(configs) |->
        [name |-> configs[i].name, url |-> configs[i].url,
         has_auth |-> IsSome(configs[i].username) /\ IsSome(configs[i].password),
         insecure |-> configs[i].insecure]]

\* GET /api/v1/registries: the handler takes no lock and awaits nothing;
\* it maps state.config.registries (configs) to the response.
HListRegistries(t, configs) ==
    /\ Begin(t, "h_list_registries", Some(configs), "h_exit")
    /\ loc' = [loc EXCEPT ![t].cres = Some(Ok(RegistryListing(configs)))]
    /\ ret' = [ret EXCEPT ![t] = "Ok"]
    /\ UNCHANGED <<registries, lockVars, client, req, sent, rcvd>>

NextListing ==
    \/ \E cs \in ListingConfigs : HListRegistries(Caller, cs)
    \/ \E c \in AgentConfigs : HAddRegistry(Caller, c)
    \/ \E n \in RegNames : HRemoveRegistry(Caller, n)
    \/ AcquireWrite(Caller)
    \/ AddRegistryEntry(Caller)
    \/ AuthEntry(Caller)
    \/ \E r \in AgentProbeResponses : AuthProbeResponse(Caller, r)
    \/ \E r \in AgentTokenResponses : AuthTokenResponse(Caller, r)
    \/ AddRegistryInsert(Caller)
    \/ HAddRegistryRespond(Caller)
    \/ HRemoveRegistryLocked(Caller)
    \/ HandlerDone(Caller)

\* The agent answering one request after the other: registries are added,
\* removed and listed.
SpecListing == InitAgent /\ [][NextListing]_vars

(***************************************************************************)
(* RegistryClient called directly: list_repositories, list_tags,           *)
(* get_manifest, get_image_info, delete_image, pull_image, authenticate.   *)
(***************************************************************************)
ClientOps ==
    {"list_repositories", "list_tags", "get_manifest", "get_image_info",
     "delete_image", "pull_image"}

\* A 401 answer, with no body or with one of `bodies`.
Unauthorized(bodies) ==
    {Http(401, None, b) : b \in {None} \cup {Some(x) : x \in bodies}}

\* The manifests a registry may answer with: layers of sizes [100, 250]
\* under two config sizes, no layer, and layers whose sizes add up to 2^64.
AnyManifests ==
    Manifests \cup
    { [config |-> Descriptor("sha256:c2", 999),
       layers |-> <<Descriptor("sha256:l1", 100), Descriptor("sha256:l2", 250)>>],
      [config |-> Descriptor("sha256:c1", 7), layers |-> <<>>],
      [config |-> Descriptor("sha256:c1", 7),
       layers |-> <<[digest |-> "sha256:l3", size |-> U64Max],
                    Descriptor("sha256:l4", 1)>>] }

\* The JSON values a config blob may have under `created` and `author`.
AnyConfigBlobs ==
    { [created |-> c, author |-> a] :
        c \in { None, Some(JsonStr("2024-05-01T10:00:00Z")),
                Some(JsonStr("yesterday")), Some([type |-> "number", v |-> "17"]) },
        a \in { None, Some(JsonStr("alice")), Some([type |-> "number", v |-> "17"]) } }

\* A response with a Docker-Content-Digest header (or without: None).
HttpDigest(status, digest) ==
    [kind |-> "http", status |-> status, www |-> None, body |-> None,
     digest |-> digest]

\* What the manifest GET of delete_image may come back with.
DeleteManifestResponses ==
    {NetErr} \cup
    {HttpDigest(st, d) : st \in {200, 404},
                         d \in {None, Some(<<"sha256:m1">>), Some(<<"\\x80">>)}}

\* What the DELETE may come back with.
DeleteResponses ==
    {NetErr, Http(202, None, None), Http(404, None, None), Http(405, None, None)}

\* list_repositories is called on the client registered as n.
CallListRepositories(t, n) ==
    /\ Begin(t, "list_repositories", None, "catalog_wait")
    /\ loc' = [loc EXCEPT ![t].reg = Some(n)]
    /\ SendFirst(t, CatalogRequest(registries[n]))
    /\ UNCHANGED <<registries, lockVars, client, ret>>

\* list_tags(repository)
CallListTags(t, n, repository) ==
    /\ Begin(t, "list_tags", None, "tags_wait")
    /\ loc' = [loc EXCEPT ![t].reg = Some(n), ![t].repo = Some(repository)]
    /\ SendFirst(t, TagsRequest(registries[n], repository))
    /\ UNCHANGED <<registries, lockVars, client, ret>>

\* get_manifest(repository, tag)
CallGetManifest(t, n, repository, tag) ==
    /\ Begin(t, "get_manifest", None, "get_manifest_wait")
    /\ loc' = [loc EXCEPT ![t].reg = Some(n), ![t].repo = Some(repository),
                          ![t].tag = Some(tag)]
    /\ SendFirst(t, ManifestRequest(registries[n], repository, tag))
    /\ UNCHANGED <<registries, lockVars, client, ret>>

\* The response to GET /v2/{repo}/manifests/{tag} arrives: get_manifest
\* returns.
GetManifestReturn(t, r) ==
    /\ pc[t] = "get_manifest_wait"
    /\ Receive(t, r)
    /\ loc' = [loc EXCEPT ![t].cres = Some(JsonResult(r))]
    /\ pc' = [pc EXCEPT ![t] = "manifest_ret"]
    /\ UNCHANGED <<registries, lockVars, op, arg, client, ret>>

\* get_image_info(repository, tag): it starts with get_manifest.
CallGetImageInfo(t, n, repository, tag) ==
    /\ Begin(t, "get_image_info", None, "manifest_wait")
    /\ loc' = [loc EXCEPT ![t].reg = Some(n), ![t].repo = Some(repository),
                          ![t].tag = Some(tag)]
    /\ SendFirst(t, ManifestRequest(registries[n], repository, tag))
    /\ UNCHANGED <<registries, lockVars, client, ret>>

\* Mutant: without the header the tag is taken as the reference.
DigestHeaderOrTag(r) ==
    IF r.digest = None THEN Some(<<"v1">>) ELSE r.digest

\* response.headers().get("docker-content-digest")
DigestHeader(r) == r.digest

\* DELETE /v2/{repo}/manifests/{digest}
DeleteRequest(c, repository, digest) ==
    Request("delete", "DELETE",
            <<c.config.url, "/v2/", repository, "/manifests/">> \o digest,
            AuthOf(c))

\* delete_image(repository, tag): it starts with the GET of the manifest.
CallDeleteImage(t, n, repository, tag) ==
    /\ Begin(t, "delete_image", None, "delete_manifest_wait")
    /\ loc' = [loc EXCEPT ![t].reg = Some(n), ![t].repo = Some(repository),
                          ![t].tag = Some(tag)]
    /\ SendFirst(t, ManifestRequest(registries[n], repository, tag))
    /\ UNCHANGED <<registries, lockVars, client, ret>>

\* delete_image: the manifest's response arrives.  Its status is not looked
\* at; with a digest header that is a string the DELETE is sent, otherwise
\* the call returns an error.
DeleteManifestResponse(t, r) ==
    /\ pc[t] = "delete_manifest_wait"
    /\ IF r.kind # "neterr" /\ IsSome(DigestHeader(r))
          /\ IsSome(ToStr(DigestHeader(r)[1]))
       THEN /\ ReceiveAndSend(t, r, DeleteRequest(ClientOf(t), loc[t].repo[1],
                                                  ToStr(DigestHeader(r)[1])[1]))
            /\ pc' = [pc EXCEPT ![t] = "delete_wait"]
            /\ UNCHANGED loc
       ELSE /\ Receive(t, r)
            /\ loc' = [loc EXCEPT ![t].cres = Some(Err)]
            /\ pc' = [pc EXCEPT ![t] = "delete_ret"]
    /\ UNCHANGED <<registries, lockVars, op, arg, client, ret>>

\* Mutant: any response to the DELETE counts as success.
DeleteResponseAnyStatus(t, r) ==
    /\ pc[t] = "delete_wait"
    /\ Receive(t, r)
    /\ loc' = [loc EXCEPT ![t].cres =
                  Some(IF r.kind # "neterr" THEN Ok(None) ELSE Err)]
    /\ pc' = [pc EXCEPT ![t] = "delete_ret"]
    /\ UNCHANGED <<registries, lockVars, op, arg, client, ret>>

\* delete_image: the response to the DELETE arrives and the call returns.
DeleteResponse(t, r) ==
    /\ pc[t] = "delete_wait"
    /\ Receive(t, r)
    /\ loc' = [loc EXCEPT ![t].cres =
                  Some(IF r.kind # "neterr" /\ IsSuccess(r.status)
                       THEN Ok(None) ELSE Err)]
    /\ pc' = [pc EXCEPT ![t] = "delete_ret"]
    /\ UNCHANGED <<registries, lockVars, op, arg, client, ret>>

\* Mutant: the layer is fetched instead of asked for.
HeadRequestAsGet(c, repository, digest) ==
    Request("layer", "GET",
            <<c.config.url, "/v2/", repository, "/blobs/", digest>>, AuthOf(c))

\* HEAD /v2/{repo}/blobs/{digest}
HeadRequest(c, repository, digest) ==
    Request("layer", "HEAD",
            <<c.config.url, "/v2/", repository, "/blobs/", digest>>, AuthOf(c))

\* What the HEAD of a layer may come back with.
HeadResponses == {NetErr, Http(200, None, None), Http(404, None, None)}

\* anyhow!("Layer {} not found", layer.digest)
LayerNotFound(digest) ==
    [ok |-> FALSE, val |-> Some(<<"Layer ", digest, " not found">>)]

\* pull_image(repository, tag): it starts with get_manifest.
CallPullImage(t, n, repository, tag) ==
    /\ Begin(t, "pull_image", None, "pull_manifest_wait")
    /\ loc' = [loc EXCEPT ![t].reg = Some(n), ![t].repo = Some(repository),
                          ![t].tag = Some(tag)]
    /\ SendFirst(t, ManifestRequest(registries[n], repository, tag))
    /\ UNCHANGED <<registries, lockVars, client, ret>>

\* pull_image: get_manifest returns.  Its error is propagated; otherwise
\* the loop over manifest.layers starts with the HEAD of the first layer,
\* or the call returns Ok when there is no layer.
PullManifestResponse(t, r) ==
    /\ pc[t] = "pull_manifest_wait"
    /\ LET m == JsonResult(r) IN
       IF ~ m.ok
       THEN /\ Receive(t, r)
            /\ loc' = [loc EXCEPT ![t].cres = Some(Err)]
            /\ pc' = [pc EXCEPT ![t] = "pull_ret"]
       ELSE IF m.val.layers = <<>>
       THEN /\ Receive(t, r)
            /\ loc' = [loc EXCEPT ![t].manifest = Some(m.val),
                                  ![t].cres = Some(Ok(None))]
            /\ pc' = [pc EXCEPT ![t] = "pull_ret"]
       ELSE /\ ReceiveAndSend(t, r, HeadRequest(ClientOf(t), loc[t].repo[1],
                                                m.val.layers[1].digest))
            /\ loc' = [loc EXCEPT ![t].manifest = Some(m.val)]
            /\ pc' = [pc EXCEPT ![t] = "pull_head_wait"]
    /\ UNCHANGED <<registries, lockVars, op, arg, client, ret>>

\* pull_image: the response to the HEAD of the current layer arrives (the
\* loop is at the layer whose position is the number of responses so far).
\* send()? fails, a non-success status is "Layer {digest} not found",
\* otherwise the loop goes on to the next layer or ends with Ok.
PullHeadResponse(t, r) ==
    /\ pc[t] = "pull_head_wait"
    /\ LET layers == loc[t].manifest[1].layers
           i == Len(rcvd[t])
       IN  IF r.kind = "neterr"
           THEN /\ Receive(t, r)
                /\ loc' = [loc EXCEPT ![t].cres = Some(Err)]
                /\ pc' = [pc EXCEPT ![t] = "pull_ret"]
           ELSE IF ~ IsSuccess(r.status)
           THEN /\ Receive(t, r)
                /\ loc' = [loc EXCEPT ![t].cres =
                              Some(LayerNotFound(layers[i].digest))]
                /\ pc' = [pc EXCEPT ![t] = "pull_ret"]
           ELSE IF i < Len(layers)
           THEN /\ ReceiveAndSend(t, r, HeadRequest(ClientOf(t), loc[t].repo[1],
                                                    layers[i + 1].digest))
                /\ UNCHANGED <<loc, pc>>
           ELSE /\ Receive(t, r)
                /\ loc' = [loc EXCEPT ![t].cres = Some(Ok(None))]
                /\ pc' = [pc EXCEPT ![t] = "pull_ret"]
    /\ UNCHANGED <<registries, lockVars, op, arg, client, ret>>

\* The caller has the result of its client call (or the call panicked).
ClientCallDone(t) ==
    /\ op[t] \in ClientOps
    /\ pc[t] \in {"catalog_ret", "tags_ret", "manifest_ret", "image_info_ret",
                  "delete_ret", "pull_ret", "panicked"}
    /\ Finish(t)
    /\ UNCHANGED <<registries, lockVars, req>>

\* Clients that add_registry built, held under their names: the one under
\* RegA with or without a token, the one under RegB with a token of its own.
InitClient ==
    /\ \E a \in ClientsNamed(RegA) :
           registries =
               [n \in RegNames |->
                   IF n = RegA THEN a
                   ELSE [config |-> [name |-> RegB, url |-> UrlB,
                                     username |-> Some("user"),
                                     password |-> Some("pw")],
                         auth_token |-> Some("tok2")]]
    /\ InitLock
    /\ InitTasks

NextClient ==
    \/ \E n \in RegNames : CallListRepositories(Caller, n)
    \/ \E n \in RegNames : CallListTags(Caller, n, Nginx)
    \/ \E n \in RegNames : CallGetManifest(Caller, n, Nginx, "v1")
    \/ \E n \in RegNames : CallGetImageInfo(Caller, n, Nginx, "v1")
    \/ \E n \in RegNames : CallDeleteImage(Caller, n, Nginx, "v1")
    \/ \E n \in RegNames : CallPullImage(Caller, n, Nginx, "v1")
    \/ \E r \in CatalogResponses \cup Unauthorized(RepoLists) :
           ListRepositoriesResponse(Caller, r)
    \/ \E r \in TagsResponses \cup Unauthorized(TagLists) :
           ListTagsResponse(Caller, r)
    \/ \E r \in ManifestResponses \cup Unauthorized(AnyManifests)
                \cup {Http(200, None, Some(m)) : m \in AnyManifests} :
           \/ GetManifestReturn(Caller, r)
           \/ GetManifestResponse(Caller, r)
           \/ PullManifestResponse(Caller, r)
    \/ \E r \in BlobResponses \cup Unauthorized(AnyConfigBlobs)
                \cup {Http(st, None, Some(b)) : st \in {200, 404},
                                                b \in AnyConfigBlobs} :
           ConfigBlobResponse(Caller, r)
    \/ \E r \in DeleteManifestResponses : DeleteManifestResponse(Caller, r)
    \/ \E r \in DeleteResponses : DeleteResponse(Caller, r)
    \/ \E r \in HeadResponses : PullHeadResponse(Caller, r)
    \/ ClientCallDone(Caller)
    \/ \E c \in Configs : CallAuthenticate(Caller, c)
    \/ AuthEntry(Caller)
    \/ \E r \in ProbeResponses : AuthProbeResponse(Caller, r)
    \/ \E r \in TokenResponses : AuthTokenResponse(Caller, r)
    \/ AuthenticateDone(Caller)

\* One caller using a registered client, one call after the other.
SpecClient == InitClient /\ [][NextClient]_vars

(***************************************************************************)
(* The container runtime: BoltClient and MockBoltClient.                   *)
(***************************************************************************)
\* The operations the panel needs of a runtime.
Capabilities ==
    {"list_containers", "get_container", "create_container", "start_container",
     "stop_container", "restart_container", "remove_container",
     "get_container_logs", "get_container_stats"}

\* The methods of impl BoltClient.
BoltMethods ==
    Capabilities \cup
    {"ping", "system_info", "pause_container", "unpause_container",
     "kill_container", "exec_container"}

\* The methods of impl MockBoltClient.
MockMethods ==
    {"list_containers", "start_container", "stop_container",
     "restart_container", "remove_container", "get_container_logs"}

\* The methods that go through container_operation.
OperationMethods ==
    {"start_container", "stop_container", "restart_container",
     "remove_container"}

\* The methods that return the `data` of the envelope.
DataMethods ==
    {"list_containers", "get_container", "create_container",
     "get_container_stats"}

\* The containers MockBoltClient::list_containers returns.
MockContainers ==
    << [id |-> "mock_web_server_001", status |-> "Running"],
       [id |-> "mock_gaming_container_002", status |-> "Running"],
       [id |-> "mock_database_003", status |-> "Exited"] >>

\* The runtime calls made: backend, method, container id (one the mock
\* lists, one nobody knows), timeout.
RuntimeCalls ==
    [backend : {"bolt", "mock"}, method : Capabilities,
     id : {"mock_web_server_001", "unknown_999"}, timeout : {None, Some(30)}]

\* BoltResponse {success, data, error}
Envelopes ==
    [success : BOOLEAN, data : {None, Some("data")},
     error : {None, Some("no such container")}]

\* What the runtime may answer: no answer, a status with a body that is
\* no envelope, or a status with an envelope.
BoltResponses ==
    {NetErr} \cup
    {Http(st, None, b) : st \in {200, 404, 500},
                         b \in {None} \cup {Some(e) : e \in Envelopes}}

\* The request a BoltClient method sends.
BoltRequest(call) ==
    IF call.method \in OperationMethods
    THEN [kind |-> "bolt", method |-> "POST",
          url |-> <<"bolt://localhost:8080", "/containers/", call.id, "/action">>,
          auth |-> NoAuth,
          body |-> [action |-> call.method, container_id |-> call.id,
                    options |-> IF call.method \in {"stop_container",
                                                    "restart_container"}
                                THEN call.timeout ELSE None]]
    ELSE [kind |-> "bolt",
          method |-> IF call.method = "create_container" THEN "POST" ELSE "GET",
          url |-> <<"bolt://localhost:8080", "/containers/", call.id,
                    call.method>>,
          auth |-> NoAuth, body |-> None]

\* container_operation: Ok when the status is 2xx and `success` is true.
OperationResult(r) ==
    IF r.kind = "neterr" THEN "Err"
    ELSE IF ~ IsSuccess(r.status) THEN "Err"
    ELSE IF r.body = None THEN "Err"
    ELSE IF ~ r.body[1].success THEN "Err"
    ELSE "Ok"

\* list_containers, get_container, create_container, get_container_stats:
\* Ok when the status is 2xx and `data` is there.
DataResult(r) ==
    IF r.kind = "neterr" THEN "Err"
    ELSE IF ~ IsSuccess(r.status) THEN "Err"
    ELSE IF r.body = None THEN "Err"
    ELSE IF r.body[1].data = None THEN "Err"
    ELSE "Ok"

\* get_container_logs: Ok when the status is 2xx; the body is the text.
LogsResult(r) ==
    IF r.kind = "neterr" THEN "Err"
    ELSE IF ~ IsSuccess(r.status) THEN "Err"
    ELSE "Ok"

\* A method is called on a backend.  A method the backend's type does not
\* have cannot be called at all: the program holding the call is not built.
CallRuntime(t, call) ==
    /\ IF call.method \notin (IF call.backend = "bolt" THEN BoltMethods
                               ELSE MockMethods)
       THEN /\ Begin(t, "runtime", Some(call), "runtime_exit")
            /\ ret' = [ret EXCEPT ![t] = "no_such_method"]
            /\ NoTraffic(t)
       ELSE IF call.backend = "mock"
       THEN /\ Begin(t, "runtime", Some(call), "mock_run")
            /\ NoTraffic(t)
            /\ UNCHANGED ret
       ELSE /\ Begin(t, "runtime", Some(call), "bolt_wait")
            /\ SendFirst(t, BoltRequest(call))
            /\ UNCHANGED ret
    /\ UNCHANGED <<registries, lockVars, client, loc>>

\* Mutant: the substitute remembers: a removed container is no longer
\* listed, and a stopped one is listed as Exited.
MockReturnRemembering(t) ==
    /\ op[t] = "runtime"
    /\ pc[t] = "mock_run"
    /\ ret' = [ret EXCEPT ![t] = "Ok"]
    /\ LET removed == {c.id : c \in {d \in loc[t].calls :
                                        d.fn = "remove_container"}}
           stopped == {c.id : c \in {d \in loc[t].calls :
                                        d.fn = "stop_container"}}
           kept == SelectSeq(MockContainers, LAMBDA c : c.id \notin removed)
       IN  loc' = [loc EXCEPT
                     ![t].cres =
                         IF arg[t][1].method = "list_containers"
                         THEN Some([i \in 1..Len(kept) |->
                                      IF kept[i].id \in stopped
                                      THEN [kept[i] EXCEPT !.status = "Exited"]
                                      ELSE kept[i]])
                         ELSE None,
                     ![t].calls =
                         IF arg[t][1].method \in OperationMethods
                         THEN @ \cup {[fn |-> arg[t][1].method,
                                       id |-> arg[t][1].id]}
                         ELSE @]
    /\ pc' = [pc EXCEPT ![t] = "runtime_exit"]
    /\ UNCHANGED <<registries, lockVars, op, arg, client, req, sent, rcvd>>

\* A MockBoltClient method returns: the fixed list, or Ok after its sleep,
\* whatever the id.  MockBoltClient has no field, so nothing of it changes;
\* calls keeps, as history, the lifecycle operations made on it.
MockReturn(t) ==
    /\ op[t] = "runtime"
    /\ pc[t] = "mock_run"
    /\ ret' = [ret EXCEPT ![t] = "Ok"]
    /\ loc' = [loc EXCEPT
                  ![t].cres = IF arg[t][1].method = "list_containers"
                              THEN Some(MockContainers) ELSE None,
                  ![t].calls = IF arg[t][1].method \in OperationMethods
                               THEN @ \cup {[fn |-> arg[t][1].method,
                                             id |-> arg[t][1].id]}
                               ELSE @]
    /\ pc' = [pc EXCEPT ![t] = "runtime_exit"]
    /\ UNCHANGED <<registries, lockVars, op, arg, client, req, sent, rcvd>>

\* The runtime's answer arrives and the BoltClient method returns.
BoltReturn(t, r) ==
    /\ op[t] = "runtime"
    /\ pc[t] = "bolt_wait"
    /\ Receive(t, r)
    /\ ret' = [ret EXCEPT ![t] =
                  IF arg[t][1].method \in OperationMethods THEN OperationResult(r)
                  ELSE IF arg[t][1].method \in DataMethods THEN DataResult(r)
                  ELSE LogsResult(r)]
    /\ pc' = [pc EXCEPT ![t] = "runtime_exit"]
    /\ UNCHANGED <<registries, lockVars, op, arg, client, loc>>

\* The caller has the result of its runtime call: the locals of the call
\* are dropped (the history of the operations on the substitute is kept).
RuntimeCallDone(t) ==
    /\ op[t] = "runtime"
    /\ pc[t] = "runtime_exit"
    /\ op' = [op EXCEPT ![t] = "idle"]
    /\ arg' = [arg EXCEPT ![t] = None]
    /\ pc' = [pc EXCEPT ![t] = "idle"]
    /\ sent' = [sent EXCEPT ![t] = <<>>]
    /\ rcvd' = [rcvd EXCEPT ![t] = <<>>]
    /\ ret' = [ret EXCEPT ![t] = "none"]
    /\ loc' = [loc EXCEPT ![t] = [NoLocals EXCEPT !.calls = loc[t].calls]]
    /\ UNCHANGED <<registries, lockVars, client, req>>

NextRuntime ==
    \/ \E call \in RuntimeCalls : CallRuntime(Caller, call)
    \/ MockReturn(Caller)
    \/ \E r \in BoltResponses : BoltReturn(Caller, r)
    \/ RuntimeCallDone(Caller)

\* One caller using a runtime backend, one call after the other.
SpecRuntime == Init /\ [][NextRuntime]_vars

(***************************************************************************)
(* Properties.                                                             *)
(***************************************************************************)
TokenRequestsSent(t) ==
    Cardinality({i \in 1..Len(sent[t]) : sent[t][i].kind = "token"})

\* The header text holds no realm= field or no service= field.
LacksRealmOrService(h) ==
    \/ ~ \E i \in 1..Len(h) : h[i] = "realm="
    \/ ~ \E i \in 1..Len(h) : h[i] = "service="

\* The probe was answered 401 with a WWW-Authenticate header h.
Challenged(rs, h) ==
    /\ Len(rs) >= 1
    /\ rs[1].kind = "http"
    /\ rs[1].status = 401
    /\ rs[1].www = Some(h)

\* The token endpoint answered with a non-success status.
TokenRejected(rs) ==
    /\ Len(rs) = 2
    /\ rs[2].kind = "http"
    /\ ~ IsSuccess(rs[2].status)

\* Authentication failed: the challenge lacks a field, or the token
\* endpoint rejected the credentials.
AuthFailed(rs) ==
    \/ \E h \in Headers : Challenged(rs, h) /\ LacksRealmOrService(h)
    \/ TokenRejected(rs)

\* C2: when authentication fails during add_registry (challenge without
\* realm or service, or credentials rejected by the token endpoint),
\* add_registry returns an error and the client is not in the map.
C2_AuthFailureAbortsRegistration ==
    \A t \in Tasks :
        (op[t] \in AddOps /\ pc[t] = "add_exit" /\ AuthFailed(rcvd[t])) =>
            /\ ret[t] = "Err"
            /\ LET c == client[t][1] IN
               ~ (c.config.name \in DOMAIN registries
                  /\ registries[c.config.name] = c)

\* C3: when the probe is answered 401 with a parsable challenge and the
\* token endpoint answers with a non-success status, authenticate returns
\* an error, stores no token and has sent exactly one token request.
C3_TokenRejectedIsAuthError ==
    \A t \in Tasks :
        (pc[t] = "auth_exit" /\ TokenRejected(rcvd[t])) =>
            /\ ret[t] = "Err"
            /\ client[t][1].auth_token = None
            /\ TokenRequestsSent(t) = 1

\* C4: when the probe is answered 401 with a WWW-Authenticate header
\* without realm or without service, authenticate returns an error, sends
\* no token request and caches no token.
C4_MissingFieldFailsClosed ==
    \A t \in Tasks :
        (pc[t] = "auth_exit"
           /\ \E h \in Headers : Challenged(rcvd[t], h) /\ LacksRealmOrService(h)) =>
            /\ ret[t] = "Err"
            /\ TokenRequestsSent(t) = 0
            /\ client[t][1].auth_token = None

\* C5: once the probe (sent without credentials) is answered 401 with
\* Bearer realm="R",service="S" and any unrecognised extra fields, exactly
\* one more request has been sent, after the probe: the Basic-auth token
\* request to R with service=S and scope=registry:catalog:*; and when that
\* request is answered with success and a token, the client holds that
\* token and authenticate returns Ok.
C5_ChallengeYieldsTokenRequest ==
    \A t \in Tasks : \A R \in Realms, S \in Services, e \in Extras :
        (op[t] = "authenticate" /\ Challenged(rcvd[t], Challenge(R, S, e))) =>
            LET c == client[t][1] IN
            /\ sent[t] =
                 << [kind |-> "probe", method |-> "GET",
                     url |-> <<c.config.url, "/v2/">>, auth |-> <<"none">>],
                    [kind |-> "token", method |-> "GET",
                     url |-> <<R, "?service=", S, "&scope=registry:catalog:*">>,
                     auth |-> <<"basic", c.config.username[1],
                                c.config.password[1]>>] >>
            /\ (Len(rcvd[t]) = 2 /\ rcvd[t][2].kind = "http"
                  /\ IsSuccess(rcvd[t][2].status) /\ IsSome(rcvd[t][2].body)) =>
                   /\ pc[t] = "auth_exit"
                   /\ ret[t] = "Ok"
                   /\ c.auth_token = rcvd[t][2].body

\* A challenge with extra fields was answered with a token, now cached.
C5_Witness ==
    \E t \in Tasks : \E R \in Realms, S \in Services, e \in Extras \ {<<>>} :
        /\ op[t] = "authenticate"
        /\ pc[t] = "auth_exit"
        /\ Challenged(rcvd[t], Challenge(R, S, e))
        /\ Len(rcvd[t]) = 2
        /\ client[t][1].auth_token = Some("tok2")

\* C6: a client whose config lacks the username or the password (in
\* particular one with neither) sends nothing during authenticate, has no
\* request in flight, keeps its cached token empty and returns Ok.
C6_NoCredentialsNoOp ==
    \A t \in Tasks :
        (op[t] = "authenticate"
           /\ (client[t][1].config.username = None
               \/ client[t][1].config.password = None)) =>
            /\ sent[t] = <<>>
            /\ req[t] = {}
            /\ client[t][1].auth_token = None
            /\ pc[t] = "auth_exit" => ret[t] = "Ok"

\* authenticate has returned on a client with neither username nor password.
C6_Witness ==
    \E t \in Tasks :
        /\ op[t] = "authenticate"
        /\ pc[t] = "auth_exit"
        /\ client[t][1].config.username = None
        /\ client[t][1].config.password = None
        /\ ret[t] = "Ok"

\* Registry A failed entirely and registry B answered one repository
\* holding the query, with two tags whose image info was fetched.
OnlyBAnswered(l) ==
    l.calls =
      { [fn |-> "list_repositories", reg |-> RegA, repo |-> None, tag |-> None,
         ok |-> FALSE],
        [fn |-> "list_repositories", reg |-> RegB, repo |-> None, tag |-> None,
         ok |-> TRUE],
        [fn |-> "list_tags", reg |-> RegB, repo |-> Some(Nginx), tag |-> None,
         ok |-> TRUE],
        [fn |-> "get_image_info", reg |-> RegB, repo |-> Some(Nginx),
         tag |-> Some("v1"), ok |-> TRUE],
        [fn |-> "get_image_info", reg |-> RegB, repo |-> Some(Nginx),
         tag |-> Some("v2"), ok |-> TRUE] }

\* C1: search_images never returns an error, whichever calls fail; and
\* when every call to A failed while B listed one matching repository with
\* two tags and both image infos were fetched, the result is exactly B's
\* two entries, in tag order.
C1_SearchSwallowsFailures ==
    \A t \in Tasks :
        op[t] \in SearchOps =>
            /\ ret[t] # "Err"
            /\ pc[t] = "search_exit" => ret[t] = "Ok"
            /\ (pc[t] = "search_exit" /\ OnlyBAnswered(loc[t])) =>
                   /\ Len(loc[t].results) = 2
                   /\ \A i \in 1..2 :
                          /\ loc[t].results[i][1] = RegB
                          /\ loc[t].results[i][2].repository = Nginx
                   /\ loc[t].results[1][2].tag = "v1"
                   /\ loc[t].results[2][2].tag = "v2"

\* A search over A and B returned after A failed and B gave two images.
C1_Witness ==
    \E t \in Tasks :
        /\ op[t] \in SearchOps
        /\ pc[t] = "search_exit"
        /\ DOMAIN registries = {RegA, RegB}
        /\ OnlyBAnswered(loc[t])
        /\ Len(loc[t].results) = 2

\* C9: during a search_images call at most one registry request is in
\* flight, whatever the number of registries, repositories and tags.
C9_SearchInFlightBounded ==
    \A t \in Tasks : op[t] \in SearchOps => Cardinality(req[t]) <= 1

\* A search over two registries has a request in flight, with results
\* already collected from an earlier registry.
C9_Witness ==
    \E t \in Tasks :
        /\ op[t] \in SearchOps
        /\ Cardinality(DOMAIN registries) = 2
        /\ Cardinality(req[t]) = 1
        /\ Len(loc[t].results) = 2
        /\ loc[t].todo = {}

\* C10: a search never waits for the answer of one registry while the
\* query to another registered registry has not been sent yet.
C10_SearchFansOut ==
    \A t \in Tasks :
        (op[t] \in SearchOps /\ req[t] # {}) => loc[t].todo = {}

\* The task holds a guard of the manager's lock.
HoldsLock(t) == writer = Some(t) \/ t \in readers

\* C7: no task has a request in flight while it holds the manager's lock.
C7_NoRequestUnderLock ==
    \A t \in Tasks : HoldsLock(t) => req[t] = {}

\* The handler is in its section that mutates the map (add, remove).
Mutating(t) ==
    /\ op[t] \in {"h_add_registry", "h_remove_registry"}
    /\ pc[t] \notin {"idle", "write_wait", "h_exit"}

\* The handler is in its section that reads the map (lookup, search).
Reading(t) ==
    /\ op[t] \in {"h_list_repositories", "h_search_images"}
    /\ pc[t] \notin {"idle", "read_wait", "h_exit"}

\* C8: while a handler is in its mutating section no other handler is in
\* a mutating or a reading section, and it holds the write guard; a handler
\* in a reading section holds a read guard; and a handler waiting to read
\* is let in whenever no write guard is out, other readers or not.
C8_MutationExclusive ==
    /\ \A t \in Tasks :
           Mutating(t) =>
               /\ writer = Some(t)
               /\ \A u \in Tasks \ {t} : ~ Mutating(u) /\ ~ Reading(u)
    /\ \A t \in Tasks : Reading(t) => t \in readers /\ writer = None
    /\ \A t \in Tasks :
           (pc[t] = "read_wait" /\ writer = None) => ENABLED AcquireRead(t)

\* One handler has inserted a registry and still holds the write guard
\* while another handler waits for a read guard.
C8_Witness ==
    \E t \in Tasks, u \in Tasks :
        /\ t # u
        /\ op[t] = "h_add_registry"
        /\ pc[t] = "add_exit"
        /\ ret[t] = "Ok"
        /\ writer = Some(t)
        /\ pc[u] = "read_wait"

\* The result of the client call task t made, once it has returned.
Returned(t) ==
    /\ op[t] \in ClientOps
    /\ pc[t] \in {"catalog_ret", "tags_ret", "manifest_ret", "image_info_ret",
                  "delete_ret"}

\* The i-th response task t received is an HTTP response of status st.
Answered(t, i, st) ==
    /\ Len(rcvd[t]) >= i
    /\ rcvd[t][i].kind = "http"
    /\ rcvd[t][i].status = st

\* C11: a list_repositories, list_tags or get_manifest call answered 401
\* returns an error, has sent that one request and nothing else (no probe,
\* no token request, no second try), has nothing in flight, and the cached
\* token is still the one the request was built from.
C11_NoRefreshOn401 ==
    \A t \in Tasks :
        ( /\ Returned(t)
          /\ op[t] \in {"list_repositories", "list_tags", "get_manifest"}
          /\ Answered(t, 1, 401) ) =>
            /\ loc[t].cres = Some(Err)
            /\ Len(sent[t]) = 1
            /\ sent[t][1].kind \in {"catalog", "tags", "manifest"}
            /\ req[t] = {}
            /\ sent[t][1].auth =
                   IF ClientOf(t).auth_token = None THEN <<"none">>
                   ELSE <<"bearer", ClientOf(t).auth_token[1]>>

\* get_manifest on a client with a cached token returned after a 401.
C11_Witness ==
    \E t \in Tasks :
        /\ op[t] = "get_manifest"
        /\ pc[t] = "manifest_ret"
        /\ Answered(t, 1, 401)
        /\ ClientOf(t).auth_token = Some("tok1")

\* C12: a client operation that received a response with a non-success
\* status returns an error (the 401 answer to the probe of authenticate
\* being the expected challenge).
C12_NonSuccessIsError ==
    \A t \in Tasks :
        /\ Returned(t) =>
               ( (\E i \in 1..Len(rcvd[t]) :
                      /\ rcvd[t][i].kind = "http"
                      /\ ~ (rcvd[t][i].status \in 200..299))
                 => ~ loc[t].cres[1].ok )
        /\ (op[t] = "authenticate" /\ pc[t] = "auth_exit") =>
               ( (\E i \in 1..Len(rcvd[t]) :
                      /\ rcvd[t][i].kind = "http"
                      /\ ~ (rcvd[t][i].status \in 200..299)
                      /\ ~ (i = 1 /\ rcvd[t][i].status = 401))
                 => ret[t] = "Err" )

\* C16: once delete_image has the manifest's response and it has no
\* Docker-Content-Digest header, the call has returned an error and the
\* manifest GET is the only request it sent.
C16_NoDigestNoDelete ==
    \A t \in Tasks :
        ( /\ op[t] = "delete_image"
          /\ Len(rcvd[t]) >= 1
          /\ rcvd[t][1].kind = "http"
          /\ rcvd[t][1].digest = None ) =>
            /\ pc[t] = "delete_ret"
            /\ loc[t].cres = Some(Err)
            /\ Len(sent[t]) = 1
            /\ sent[t][1].method = "GET"
            /\ req[t] = {}

\* delete_image returned after a 200 manifest response without the header.
C16_Witness ==
    \E t \in Tasks :
        /\ op[t] = "delete_image"
        /\ pc[t] = "delete_ret"
        /\ Answered(t, 1, 200)
        /\ rcvd[t][1].digest = None

RECURSIVE ColumnSum(_, _)
\* The sum of the i-th limbs of the sizes of the layers.
ColumnSum(layers, i) ==
    IF layers = <<>> THEN 0
    ELSE Head(layers).size[i] + ColumnSum(Tail(layers), i)

\* The sum of the layer sizes as a number of five limbs: no u64 is lost.
TrueSum(layers) ==
    LET k4 == ColumnSum(layers, 4)
        k3 == ColumnSum(layers, 3) + k4 \div 65536
        k2 == ColumnSum(layers, 2) + k3 \div 65536
        k1 == ColumnSum(layers, 1) + k2 \div 65536
    IN  <<k1 \div 65536, k1 % 65536, k2 % 65536, k3 % 65536, k4 % 65536>>

\* get_image_info returned an ImageInfo.
ImageInfoReturned(t) ==
    /\ op[t] = "get_image_info"
    /\ pc[t] = "image_info_ret"
    /\ loc[t].cres[1].ok

\* C19: the size get_image_info returns is the sum of the sizes of the
\* manifest's layers, whatever the config descriptor's size: 350 for layers
\* of 100 and 250, 0 for no layer.
C19_SizeIsLayerSum ==
    \A t \in Tasks :
        ImageInfoReturned(t) =>
            LET layers == loc[t].manifest[1].layers
                size == loc[t].cres[1].val.size IN
            /\ <<0>> \o size = TrueSum(layers)
            /\ (Len(layers) = 2 /\ layers[1].size = <<0, 0, 0, 100>>
                /\ layers[2].size = <<0, 0, 0, 250>>) => size = <<0, 0, 0, 350>>
            /\ layers = <<>> => size = <<0, 0, 0, 0>>

\* The config blob's `created` is a string holding an RFC3339 time.
GoodCreated(b) ==
    /\ b.created # None
    /\ b.created[1].type = "string"
    /\ b.created[1].v = "2024-05-01T10:00:00Z"

\* C20: when the manifest was fetched and the config blob is JSON,
\* get_image_info succeeds; `created` is the blob's time when that is an
\* RFC3339 string and the current time otherwise; `author` is the blob's
\* author when that is a string and None otherwise.
C20_CreatedAuthorDegrade ==
    \A t \in Tasks :
        ( /\ op[t] = "get_image_info"
          /\ pc[t] = "image_info_ret"
          /\ Len(rcvd[t]) = 2
          /\ rcvd[t][2].kind = "http"
          /\ rcvd[t][2].body # None ) =>
            LET b == rcvd[t][2].body[1]
                info == loc[t].cres[1].val IN
            /\ loc[t].cres[1].ok
            /\ info.created = IF GoodCreated(b) THEN b.created[1].v ELSE "now"
            /\ info.author =
                   IF b.author # None /\ b.author[1].type = "string"
                   THEN <<b.author[1].v>> ELSE <<>>

\* get_image_info returned for a blob whose `created` is a string that is
\* no RFC3339 time and whose `author` is a number.
C20_Witness ==
    \E t \in Tasks :
        /\ ImageInfoReturned(t)
        /\ rcvd[t][2].body[1].created = Some(JsonStr("yesterday"))
        /\ rcvd[t][2].body[1].author # None
        /\ rcvd[t][2].body[1].author[1].type = "number"
        /\ loc[t].cres[1].val.created = "now"
        /\ loc[t].cres[1].val.author = None

\* C17: remove_registry(name) leaves no entry under name and every other
\* entry as it was, and returns whether there was an entry; so with no entry
\* under name it returns false and the map is unchanged, and a remove after
\* a remove of the same name returns false and changes nothing.
C17_RemoveIdempotent ==
    [][ \A n \in RegNames :
            CallRemoveRegistry(Caller, n) =>
                /\ n \notin DOMAIN registries'
                /\ DOMAIN registries' = DOMAIN registries \ {n}
                /\ \A m \in DOMAIN registries' : registries'[m] = registries[m]
                /\ ret'[Caller] = (IF n \in DOMAIN registries THEN "true"
                                   ELSE "false")
                /\ n \notin DOMAIN registries =>
                       registries' = registries /\ ret'[Caller] = "false" ]_vars

\* remove_registry found no entry under the name, in a manager that holds
\* another registry.
C17_Witness ==
    /\ op[Caller] = "remove_registry"
    /\ pc[Caller] = "remove_exit"
    /\ ret[Caller] = "false"
    /\ arg[Caller][1] \notin DOMAIN registries
    /\ DOMAIN registries # {}

\* C18: the step of add_registry that follows a successful authenticate
\* puts the new client under its name, in place of any client that was
\* there, and touches no other entry; afterwards get_registry(name) is the
\* client built from the config just given and list_registries has name.
C18_LastWriteWins ==
    [][ \A t \in Tasks :
            (AddRegistryInsert(t) /\ ret[t] # "Err") =>
                LET c == client[t][1] IN
                /\ c.config = arg[t][1]
                /\ DOMAIN registries' = DOMAIN registries \cup {c.config.name}
                /\ registries'[c.config.name] = c
                /\ \A m \in DOMAIN registries \ {c.config.name} :
                       registries'[m] = registries[m]
                /\ Cardinality({m \in DOMAIN registries' :
                                   m = c.config.name}) = 1 ]_vars

\* add_registry has replaced a client that was built from another config.
C18_Witness ==
    /\ op[Caller] = "add_registry"
    /\ pc[Caller] = "add_exit"
    /\ ret[Caller] # "Err"
    /\ loc[Caller].cres # None
    /\ loc[Caller].cres[1].config # arg[Caller][1]
    /\ registries[arg[Caller][1].name].config = arg[Caller][1]

\* Task t made the runtime call `method` on `backend` and has its result.
RuntimeReturned(t, backend, methods) ==
    /\ op[t] = "runtime"
    /\ pc[t] = "runtime_exit"
    /\ arg[t][1].backend = backend
    /\ arg[t][1].method \in methods

\* C13: a BoltClient call that parses the envelope returns an error when
\* the status is not 2xx, and when the envelope has success = false or
\* carries an error.
C13_EnvelopeFailureIsError ==
    \A t \in Tasks :
        ( /\ RuntimeReturned(t, "bolt", Capabilities \ {"get_container_logs"})
          /\ rcvd[t][1].kind = "http"
          /\ \/ ~ (rcvd[t][1].status \in 200..299)
             \/ /\ rcvd[t][1].body # None
                /\ \/ ~ rcvd[t][1].body[1].success
                   \/ rcvd[t][1].body[1].error # None ) =>
            ret[t] = "Err"

\* The ids of the containers the substitute lists.
MockIds == {MockContainers[i].id : i \in 1..Len(MockContainers)}

\* C14: stop_container returns success for a valid id and an error for an
\* unknown one on both backends: on the substitute, valid means listed by
\* list_containers; on the real client, the runtime says so by a 2xx
\* envelope with success = true.
C14_StopEquivalent ==
    \A t \in Tasks :
        /\ RuntimeReturned(t, "mock", {"stop_container"}) =>
               (ret[t] = "Ok" <=> arg[t][1].id \in MockIds)
        /\ (RuntimeReturned(t, "bolt", {"stop_container"})
            /\ rcvd[t][1].kind = "http") =>
               (ret[t] = "Ok" <=>
                    /\ rcvd[t][1].status \in 200..299
                    /\ rcvd[t][1].body # None
                    /\ rcvd[t][1].body[1].success)

\* C15: every operation of the capability set can be called on whichever
\* backend is installed.
C15_SubstituteHasCapabilities ==
    \A t \in Tasks :
        (op[t] = "runtime" /\ arg[t][1].method \in Capabilities) =>
            ret[t] # "no_such_method"

\* C21: pull_image first gets the manifest, then sends one HEAD per layer
\* in manifest order and never a GET of a layer blob; a HEAD is sent only
\* after every earlier one was answered with a success status; the first
\* HEAD answered with another status ends the call with an error naming
\* that layer's digest; the call succeeds only when the manifest was got
\* and the HEAD of every layer was answered with a success status.
C21_PullChecksLayersInOrder ==
    \A t \in Tasks :
        op[t] = "pull_image" =>
            LET url == registries[loc[t].reg[1]].config.url
                repo == loc[t].repo[1]
                layers == rcvd[t][1].body[1].layers
                n == Len(rcvd[t])
            IN  /\ sent[t][1].method = "GET"
                /\ sent[t][1].url = <<url, "/v2/", repo, "/manifests/",
                                      loc[t].tag[1]>>
                /\ Len(sent[t]) > 1 =>
                       /\ rcvd[t][1].kind = "http"
                       /\ IsSuccess(rcvd[t][1].status)
                       /\ rcvd[t][1].body # None
                       /\ Len(sent[t]) <= 1 + Len(layers)
                /\ \A i \in 2..Len(sent[t]) :
                       /\ sent[t][i].method = "HEAD"
                       /\ sent[t][i].url = <<url, "/v2/", repo, "/blobs/",
                                             layers[i - 1].digest>>
                       /\ \A j \in 2..(i - 1) :
                              /\ rcvd[t][j].kind = "http"
                              /\ IsSuccess(rcvd[t][j].status)
                /\ pc[t] = "pull_ret" =>
                       /\ n = Len(sent[t])
                       /\ loc[t].cres[1].ok <=>
                              /\ rcvd[t][1].kind = "http"
                              /\ IsSuccess(rcvd[t][1].status)
                              /\ rcvd[t][1].body # None
                              /\ n = 1 + Len(layers)
                              /\ \A j \in 2..n :
                                     /\ rcvd[t][j].kind = "http"
                                     /\ IsSuccess(rcvd[t][j].status)
                       /\ (n > 1 /\ rcvd[t][n].kind = "http"
                           /\ ~ IsSuccess(rcvd[t][n].status)) =>
                              loc[t].cres[1].val =
                                  Some(<<"Layer ", layers[n - 1].digest,
                                         " not found">>)

\* pull_image returned the error naming the second layer, whose HEAD was
\* answered 404 after the first layer's HEAD was answered 200.
C21_Witness ==
    /\ op[Caller] = "pull_image"
    /\ pc[Caller] = "pull_ret"
    /\ Len(sent[Caller]) = 3
    /\ IsSuccess(rcvd[Caller][2].status)
    /\ rcvd[Caller][3] = Http(404, None, None)
    /\ loc[Caller].cres = Some(LayerNotFound("sha256:l2"))

\* The listing handler of task t has built its response.
Listed(t) == op[t] = "h_list_registries" /\ pc[t] = "h_exit"

\* Two lists of RegistryConfig that differ at most in the values of
\* credentials that are present in both.
SameButCredentialValues(a, b) ==
    /\ Len(a) = Len(b)
    /\ \A i \in 1..Len(a) :
           /\ a[i].name = b[i].name
           /\ a[i].url = b[i].url
           /\ a[i].insecure = b[i].insecure
           /\ IsSome(a[i].username) /\ IsSome(b[i].username)
           /\ IsSome(a[i].password) /\ IsSome(b[i].password)

\* C22: an entry of the registry listing has the fields name, url,
\* insecure and has_auth and no other; has_auth is true exactly when the
\* username and the password are both set; and a configuration that
\* differs only in the values of its credentials gives the same listing.
C22_ListingRedactsCredentials ==
    \A t \in Tasks :
        Listed(t) =>
            LET configs == arg[t][1]
                listing == loc[t].cres[1].val
            IN  /\ Len(listing) = Len(configs)
                /\ \A i \in 1..Len(configs) :
                       /\ DOMAIN listing[i] = {"name", "url", "insecure", "has_auth"}
                       /\ listing[i].name = configs[i].name
                       /\ listing[i].url = configs[i].url
                       /\ listing[i].insecure = configs[i].insecure
                       /\ listing[i].has_auth <=>
                              /\ configs[i].username # None
                              /\ configs[i].password # None
                /\ \A other \in ListingConfigs :
                       SameButCredentialValues(configs, other) =>
                           RegistryListing(other) = listing

\* A listing of a registry with username "user" and password "pw" was
\* built: it says has_auth and is the listing "admin"/"hunter2" gives.
C22_Witness ==
    /\ Listed(Caller)
    /\ arg[Caller][1][1].username = Some("user")
    /\ arg[Caller][1][1].password = Some("pw")
    /\ loc[Caller].cres[1].val[1].has_auth
    /\ \E other \in ListingConfigs :
           /\ other[1].username = Some("admin")
           /\ other[1].password = Some("hunter2")
           /\ RegistryListing(other) = loc[Caller].cres[1].val

\* C29: the agent's registry listing names exactly the registries the
\* manager holds at the time: a registry added before the listing is in
\* it and a registry removed before the listing is not.  (The agent's
\* configuration is the default one, as main builds it.)
C29_ListingFollowsManager ==
    \A t \in Tasks :
        (Listed(t) /\ arg[t] = Some(DefaultRegistries)) =>
            LET listing == loc[t].cres[1].val IN
            {listing[i].name : i \in 1..Len(listing)} = DOMAIN registries

\* The elements of a sequence.
Range(s) == {s[i] : i \in 1..Len(s)}

\* Whether the search of task t called fn for (reg, repo, tag), and with
\* outcome ok.
Called(t, fn, reg, repo, tag, ok) ==
    [fn |-> fn, reg |-> reg, repo |-> repo, tag |-> tag, ok |-> ok]
        \in loc[t].calls

\* C23: the result of search_images holds an entry for (registry,
\* repository, tag) exactly when the registry is registered, its
\* list_repositories succeeded and lists the repository, the repository's
\* name contains the query, list_tags for it succeeded and lists the tag,
\* and get_image_info for the tag succeeded.  Every registered registry is
\* asked for its repositories, every listed repository whose name contains
\* the query for its tags, and every listed tag for its image info:
\* nothing else leaves an entry out, nothing else puts one in.
C23_ResultIsUnionOfSuccesses ==
    \A t \in Tasks :
        (op[t] = "search_images" /\ pc[t] = "search_exit") =>
            LET l == loc[t]
                query == arg[t][1]
                Catalogs == {s \in l.listed : s.repo = None}
                TagListings == {s \in l.listed : s.repo # None}
                Candidates ==
                    UNION { { <<s.reg, s.repo[1], tg>> : tg \in Range(s.val) } :
                            s \in TagListings }
            IN  /\ \A n \in DOMAIN registries :
                       \/ Called(t, "list_repositories", n, None, None, TRUE)
                       \/ Called(t, "list_repositories", n, None, None, FALSE)
                /\ \A c \in Catalogs : \A r \in Range(c.val) :
                       Contains(r, query) =>
                           \/ Called(t, "list_tags", c.reg, Some(r), None, TRUE)
                           \/ Called(t, "list_tags", c.reg, Some(r), None, FALSE)
                /\ \A s \in TagListings : \A tg \in Range(s.val) :
                       \/ Called(t, "get_image_info", s.reg, s.repo, Some(tg), TRUE)
                       \/ Called(t, "get_image_info", s.reg, s.repo, Some(tg), FALSE)
                /\ { <<l.results[i][1], l.results[i][2].repository,
                       l.results[i][2].tag>> : i \in 1..Len(l.results) } =
                   { e \in Candidates :
                       /\ e[1] \in DOMAIN registries
                       /\ \E c \in Catalogs : c.reg = e[1] /\ e[2] \in Range(c.val)
                       /\ Contains(e[2], query)
                       /\ Called(t, "get_image_info", e[1], Some(e[2]),
                                 Some(e[3]), TRUE) }

\* search_images returned entries although one registry's catalog could
\* not be read, another's listed a repository whose name does not contain
\* the query, and one tag's get_image_info failed.
C23_Witness ==
    /\ op[Caller] = "search_images"
    /\ pc[Caller] = "search_exit"
    /\ loc[Caller].results # <<>>
    /\ \E c \in loc[Caller].calls : c.fn = "list_repositories" /\ ~ c.ok
    /\ \E c \in loc[Caller].calls : c.fn = "get_image_info" /\ ~ c.ok
    /\ \E s \in loc[Caller].listed :
           /\ s.repo = None
           /\ \E r \in Range(s.val) : ~ Contains(r, arg[Caller][1])

\* What C24 says of a delete_image call of task t whose manifest response
\* carries a Docker-Content-Digest header for which Applies holds: the
\* DELETE is sent once the manifest's response is in, there is one, it is
\* addressed to /v2/{repo}/manifests/{digest}, and the call returns
\* success exactly when the DELETE's response has a success status.
DeletesByDigest(t, Applies(_)) ==
    (/\ op[t] = "delete_image"
     /\ Len(rcvd[t]) >= 1
     /\ rcvd[t][1].kind = "http"
     /\ rcvd[t][1].digest # None
     /\ Applies(rcvd[t][1].digest[1])) =>
        /\ Len(sent[t]) = 2
        /\ sent[t][1].method = "GET"
        /\ sent[t][2].method = "DELETE"
        /\ sent[t][2].url =
               <<registries[loc[t].reg[1]].config.url, "/v2/", loc[t].repo[1],
                 "/manifests/">> \o rcvd[t][1].digest[1]
        /\ sent[t][2].url # sent[t][1].url
        /\ pc[t] = "delete_ret" =>
               /\ Len(rcvd[t]) = 2
               /\ loc[t].cres[1].ok <=>
                      /\ rcvd[t][2].kind = "http"
                      /\ IsSuccess(rcvd[t][2].status)

\* C24 (amended): when the manifest response carries a
\* Docker-Content-Digest header whose value is text (visible ASCII, what
\* HeaderValue::to_str accepts), delete_image sends exactly one DELETE,
\* after the manifest GET completed, addressed to that digest and never
\* to the tag, and returns success if and only if the DELETE's response
\* has a success status; and no DELETE is ever sent before the manifest's
\* response or more than once.
C24_DeleteByDigestWhenText ==
    \A t \in Tasks :
        /\ DeletesByDigest(t, LAMBDA d : ToStr(d) # None)
        /\ op[t] = "delete_image" =>
               /\ Len(sent[t]) <= 2
               /\ Len(sent[t]) = 2 => Len(rcvd[t]) >= 1
               /\ sent[t][1].method # "DELETE"

\* delete_image returned success: the manifest response (status 404) had
\* the digest header "sha256:m1" and the DELETE of that digest got 202.
C24_Witness ==
    /\ op[Caller] = "delete_image"
    /\ pc[Caller] = "delete_ret"
    /\ rcvd[Caller][1] = HttpDigest(404, Some(<<"sha256:m1">>))
    /\ sent[Caller][2].method = "DELETE"
    /\ rcvd[Caller][2] = Http(202, None, None)
    /\ loc[Caller].cres[1].ok

\* C24: when the manifest response carries a Docker-Content-Digest header,
\* whatever its value, delete_image sends exactly one DELETE, after the
\* manifest GET completed, addressed to that digest, and returns success
\* if and only if the DELETE's response has a success status.
C24_DeleteByDigest ==
    \A t \in Tasks : DeletesByDigest(t, LAMBDA d : TRUE)

\* C25: an add_registry that returns an error leaves the map as it was
\* before the call: no step of the call changes the map except the insert
\* that follows a successful authenticate, and once authenticate has
\* failed no step of the call changes it, so no entry is inserted and the
\* entry that was under the same name is still there.
C25_FailedAddChangesNothing ==
    [][ \A t \in Tasks :
            op[t] = "add_registry" =>
                /\ (op'[t] = "add_registry" /\ ret'[t] = "Err") =>
                       registries' = registries
                /\ registries' # registries =>
                       /\ pc[t] = "auth_exit"
                       /\ ret[t] # "Err"
                       /\ pc'[t] = "add_exit" ]_vars

\* add_registry returned an error for a name under which the manager
\* holds a client built from another config: that client is still there.
C25_Witness ==
    /\ op[Caller] = "add_registry"
    /\ pc[Caller] = "add_exit"
    /\ ret[Caller] = "Err"
    /\ arg[Caller][1].name \in DOMAIN registries
    /\ registries[arg[Caller][1].name].config # arg[Caller][1]
    /\ loc[Caller].cres = None

\* C26: when authenticate returns Ok on a client whose config has a
\* username and a password, the client holds a token.
C26_SuccessMeansToken ==
    \A t \in Tasks :
        (/\ op[t] = "authenticate"
         /\ pc[t] = "auth_exit"
         /\ ret[t] = "Ok"
         /\ client[t][1].config.username # None
         /\ client[t][1].config.password # None) =>
            client[t][1].auth_token # None

\* Whether request q carries the text s: in its url or in its
\* Authorization header.
Carries(q, s) == s \in Range(q.url) \cup Range(q.auth)

\* C27: the username and the password are sent in one kind of request
\* only, the token request, as Basic auth, to the realm of the challenge;
\* the probe carries no credentials; every request of a registered client
\* (catalog, tags, manifest, blob GET and HEAD, DELETE) carries the bearer
\* token of that client when it has one and nothing otherwise, never a
\* username or a password, and never the token of the client registered
\* under another name.
C27_CredentialsOnlyToTokenEndpoint ==
    \A t \in Tasks :
        /\ op[t] = "authenticate" =>
               LET config == client[t][1].config IN
               \A i \in 1..Len(sent[t]) :
                   LET q == sent[t][i] IN
                   IF i = 1
                   THEN /\ q.kind = "probe"
                        /\ q.auth = <<"none">>
                        /\ ~ Carries(q, "user")
                        /\ ~ Carries(q, "pw")
                   ELSE /\ i = 2
                        /\ q.kind = "token"
                        /\ q.auth = <<"basic", config.username[1],
                                      config.password[1]>>
                        /\ LET realm == ParseChallenge(rcvd[t][1].www[1]).realm[1]
                           IN  SubSeq(q.url, 1, Len(realm)) = realm
                        /\ ~ \E j \in 1..Len(q.url) : q.url[j] \in {"user", "pw"}
        /\ op[t] \in ClientOps =>
               LET n == loc[t].reg[1]
                   token == registries[n].auth_token
               IN  \A i \in 1..Len(sent[t]) :
                       LET q == sent[t][i] IN
                       /\ q.kind \notin {"probe", "token"}
                       /\ q.auth = (IF token = <<>> THEN <<"none">>
                                    ELSE <<"bearer", token[1]>>)
                       /\ ~ Carries(q, "user")
                       /\ ~ Carries(q, "pw")
                       /\ \A m \in DOMAIN registries \ {n} :
                              registries[m].auth_token # <<>> =>
                                  ~ Carries(q, registries[m].auth_token[1])

\* pull_image on the client registered as docker-hub has sent the HEAD of
\* a layer with that client's token, while the client registered as
\* local-drift holds another token.
C27_Witness ==
    /\ op[Caller] = "pull_image"
    /\ loc[Caller].reg = Some(RegB)
    /\ Len(sent[Caller]) = 2
    /\ sent[Caller][2].method = "HEAD"
    /\ sent[Caller][2].auth = <<"bearer", "tok2">>
    /\ registries[RegA].auth_token = Some("tok1")
    /\ registries[RegB].config.username = Some("user")

\* C28: from the step that gives a search handler its read guard to the
\* step that drops it, no step changes the manager's map (no add_registry
\* or remove_registry of another handler takes effect), and every entry of
\* the search's result names a registry the map holds.
C28_SearchSeesFixedRegistries ==
    [][ \A t \in Tasks :
            (op[t] = "h_search_images" /\ t \in readers) =>
                /\ registries' = registries
                /\ \A i \in 1..Len(loc'[t].results) :
                       loc'[t].results[i][1] \in DOMAIN registries' ]_vars

\* A federated search holds its read guard and has an entry in its result
\* while another handler waits for the write guard to remove that entry's
\* registry.
C28_Witness ==
    \E t, u \in Tasks :
        /\ op[t] = "h_search_images"
        /\ arg[t][1].registry = None
        /\ t \in readers
        /\ loc[t].results # <<>>
        /\ op[u] = "h_remove_registry"
        /\ pc[u] = "write_wait"
        /\ arg[u] = Some(loc[t].results[1][1])

\* C30: on the substitute, start_container, stop_container,
\* restart_container and remove_container return Ok for every id, and
\* list_containers returns the same ids with the same statuses whatever
\* operations were made before it: mock_web_server_001 Running,
\* mock_gaming_container_002 Running, mock_database_003 Exited.
C30_MockOperationsChangeNothing ==
    \A t \in Tasks :
        /\ RuntimeReturned(t, "mock", {"start_container", "stop_container",
                                       "restart_container", "remove_container"}) =>
               ret[t] = "Ok"
        /\ RuntimeReturned(t, "mock", {"list_containers"}) =>
               /\ ret[t] = "Ok"
               /\ LET listing == loc[t].cres[1] IN
                  /\ Len(listing) = 3
                  /\ listing[1].id = "mock_web_server_001"
                  /\ listing[1].status = "Running"
                  /\ listing[2].id = "mock_gaming_container_002"
                  /\ listing[2].status = "Running"
                  /\ listing[3].id = "mock_database_003"
                  /\ listing[3].status = "Exited"

\* list_containers returned on the substitute after mock_web_server_001
\* was stopped and removed and an unknown id was started: the container
\* is still listed, as Running.
C30_Witness ==
    /\ RuntimeReturned(Caller, "mock", {"list_containers"})
    /\ [fn |-> "stop_container", id |-> "mock_web_server_001"]
           \in loc[Caller].calls
    /\ [fn |-> "remove_container", id |-> "mock_web_server_001"]
           \in loc[Caller].calls
    /\ [fn |-> "start_container", id |-> "unknown_999"] \in loc[Caller].calls
    /\ \E i \in 1..Len(loc[Caller].cres[1]) :
           /\ loc[Caller].cres[1][i].id = "mock_web_server_001"
           /\ loc[Caller].cres[1][i].status = "Running"

====
